---- MODULE Spec2Model ----
(***************************************************************************)
(* Resource-ownership and lifetime layer of applevisor (src/src/vm.rs,     *)
(* src/src/vcpu.rs, src/src/memory.rs) over the Hypervisor backend         *)
(* declared in src/applevisor-sys/src/lib.rs.                              *)
(*                                                                         *)
(* Threads interleave at the granularity of one backend call or one atomic *)
(* reference-count operation (Arc::new / clone / into_inner / drop,        *)
(* Weak::upgrade, Weak::strong_count).                                     *)
(***************************************************************************)
EXTENDS Integers, Sequences, FiniteSets, TLC

\* ---------------------------------------------------------------------------
\* Bounds
\* ---------------------------------------------------------------------------
NThreads == 2
MaxHandles == 2
MaxVcpus == 2
MaxMems == 1
MaxExitLen == 2
MaxClones == 2

Threads == 1..NThreads
VcpuIds == 1..MaxVcpus
MemIds == 1..MaxMems

\* ---------------------------------------------------------------------------
\* Program constants
\* ---------------------------------------------------------------------------
PAGE_SIZE == 16384

\* Option::None, and the failure of a checked operation.
None == <<>>

\* ---------------------------------------------------------------------------
\* u64 / usize arithmetic.  A 64-bit word is <<a, b, c, d>> with value
\* a * 2^48 + b * 2^32 + c * 2^16 + d, each limb in 0..65535.
\* ---------------------------------------------------------------------------
Limb == 2^16

\* The word of a small natural number (n < 2^31).
U64Of(n) == <<0, 0, n \div Limb, n % Limb>>

\* u64::checked_add: None on overflow.
checked_add(x, y) ==
    LET s4 == x[4] + y[4]
        s3 == x[3] + y[3] + (s4 \div Limb)
        s2 == x[2] + y[2] + (s3 \div Limb)
        s1 == x[1] + y[1] + (s2 \div Limb)
    IN IF s1 >= Limb THEN None
       ELSE <<s1, s2 % Limb, s3 % Limb, s4 % Limb>>

\* x < y on words.
U64Lt(x, y) ==
    \/ x[1] < y[1]
    \/ x[1] = y[1] /\ x[2] < y[2]
    \/ x[1] = y[1] /\ x[2] = y[2] /\ x[3] < y[3]
    \/ x[1] = y[1] /\ x[2] = y[2] /\ x[3] = y[3] /\ x[4] < y[4]

\* x - y on words, for y <= x.
U64Sub(x, y) ==
    LET d4 == x[4] - y[4]
        b4 == IF d4 < 0 THEN 1 ELSE 0
        d3 == x[3] - y[3] - b4
        b3 == IF d3 < 0 THEN 1 ELSE 0
        d2 == x[2] - y[2] - b3
        b2 == IF d2 < 0 THEN 1 ELSE 0
        d1 == x[1] - y[1] - b2
    IN <<d1, d2 + b2 * Limb, d3 + b3 * Limb, d4 + b4 * Limb>>

\* The natural number of a word below 2^31.
U64ToInt(x) == x[3] * Limb + x[4]

VARIABLES
    hvVms,         \* backend: number of live VMs of the process
    hvVmBadDestroy,\* backend: hv_vm_destroy was called with no live VM
    hvVcpu,        \* backend: vCPU id -> "none" | "live" | "destroyed"
    hvMaps,        \* backend: set of guest mappings [ipa, size, flags]
    hvLast,        \* last memory call the backend received or last copy on
                   \* a host buffer, with a bit that flips at each of them
    guard,         \* strong count of the VM's Arc<()> (_guard / _guard_vm)
    vmHandles,     \* thread -> number of VirtualMachineInstance it owns
    pc,            \* thread -> position inside a multi-step operation
    ret,           \* the last value returned by a call: <<op, value..>>
    derived,       \* a Vcpu or Memory was created from the current VM
    vcpuObj,       \* vCPU id -> "none" | "live" | "dropping" | "dropped"
    vcpuOwner,     \* vCPU id -> owning thread (0 when not created)
    selfGuard,     \* vCPU id -> strong count of Vcpu::_guard_self
    handleOut,     \* vCPU id -> a VcpuHandle was produced by get_handle
    hvVcpuLog,     \* backend: vCPU id -> what the backend saw of the calls
                   \* that drive it (creating thread, register, destroys)
    dropId,        \* thread -> id of the Vcpu / Memory it is dropping
    exitArg,       \* thread -> handles vcpus_exit's loop has yet to visit
    exitIds,       \* thread -> vcpus_exit's `ids` vector
    exitGuards,    \* thread -> vcpus_exit's `guards` vector
    exitAlive,     \* thread -> ids whose owner was not dropped at upgrade
    hvExitLog,     \* thread -> id lists hv_vcpus_exit received from the call
    mem,           \* memory id -> Memory object
    hostMem,       \* memory id -> host buffer: offset -> non-zero byte
    mapping,       \* mapping id -> Mapping or MappingShared object (lib.rs)
    VM_INSTANCE,   \* the static OnceLock: "unset" | "NoGic" | "Gic"
    VM_INIT_LOCK,  \* the static Mutex: 0 free, t held by t, -1 poisoned
    initCall,      \* thread -> the init function it runs and its arguments
    initCreated,   \* an init function has created the backend VM
    hvReturn       \* the raw status the backend returned to the last
                   \* wrapped call that failed

vars == <<hvVms, hvVmBadDestroy, hvVcpu, hvMaps, hvLast, guard,
          vmHandles, pc, ret, derived, vcpuObj, vcpuOwner, selfGuard,
          handleOut, hvVcpuLog, dropId, exitArg, exitIds, exitGuards, exitAlive,
          hvExitLog, mem, hostMem, mapping, VM_INSTANCE, VM_INIT_LOCK, initCall,
          initCreated, hvReturn>>

hvVars == <<hvVms, hvVmBadDestroy, hvVcpu, hvMaps, hvLast>>
vcpuVars == <<vcpuObj, vcpuOwner, selfGuard, handleOut, hvVcpuLog>>
exitVars == <<exitArg, exitIds, exitGuards, exitAlive, hvExitLog>>
memVars == <<mem, hostMem, mapping>>
staticVars == <<VM_INSTANCE, VM_INIT_LOCK, initCall, initCreated, hvReturn>>

NoMem == [state |-> "none", owner |-> 0, size |-> <<0, 0, 0, 0>>,
          guest_addr |-> None]

\* No Mapping or MappingShared object.  size, host_size (host_alloc.size),
\* guest_addr, perms and buf (the host buffer) are the MappingInner; owner is
\* the thread that holds a Mapping; of a MappingShared, owners counts the
\* clones each thread holds (their sum is the strong count of the Arc),
\* writers and readers are the threads that hold a write or a read guard of
\* the RwLock, poisoned is its poison flag, and call is the operation each
\* thread has entered and not yet left.
NoMapping == [state |-> "none", owner |-> 0, size |-> <<0, 0, 0, 0>>,
              host_size |-> <<0, 0, 0, 0>>, guest_addr |-> None,
              perms |-> "None", buf |-> <<>>,
              owners |-> [t \in Threads |-> 0], writers |-> {},
              readers |-> {}, poisoned |-> FALSE,
              call |-> [t \in Threads |-> "none"]]

\* The backend has not seen the vCPU id.
NoVcpuLog == [creator |-> 0, foreign |-> FALSE, destroys |-> 0,
              stale |-> FALSE, reg |-> 0]

\* No init function is running.
NoCall == [fn |-> "none", vm_config |-> "none", gic_config |-> "none"]

\* A zero-initialised host buffer (only non-zero bytes are stored).
EmptyBuf == [o \in {} |-> 0]

Init ==
    /\ hvVms = 0
    /\ hvVmBadDestroy = FALSE
    /\ hvVcpu = [v \in VcpuIds |-> "none"]
    /\ hvMaps = {}
    /\ hvLast = [fn |-> "none", ipa |-> None, size |-> None, flags |-> 0,
                 seq |-> 0]
    /\ guard = 0
    /\ vmHandles = [t \in Threads |-> 0]
    /\ pc = [t \in Threads |-> "idle"]
    /\ ret = <<"none">>
    /\ derived = FALSE
    /\ vcpuObj = [v \in VcpuIds |-> "none"]
    /\ vcpuOwner = [v \in VcpuIds |-> 0]
    /\ selfGuard = [v \in VcpuIds |-> 0]
    /\ handleOut = [v \in VcpuIds |-> FALSE]
    /\ hvVcpuLog = [v \in VcpuIds |-> NoVcpuLog]
    /\ dropId = [t \in Threads |-> 0]
    /\ exitArg = [t \in Threads |-> <<>>]
    /\ exitIds = [t \in Threads |-> <<>>]
    /\ exitGuards = [t \in Threads |-> <<>>]
    /\ exitAlive = [t \in Threads |-> <<>>]
    /\ hvExitLog = [t \in Threads |-> <<>>]
    /\ mem = [m \in MemIds |-> NoMem]
    /\ hostMem = [m \in MemIds |-> EmptyBuf]
    /\ mapping = [k \in MemIds |-> NoMapping]
    /\ VM_INSTANCE = "unset"
    /\ VM_INIT_LOCK = 0
    /\ initCall = [t \in Threads |-> NoCall]
    /\ initCreated = FALSE
    /\ hvReturn = 0

TotalHandles == LET S[n \in 0..NThreads] ==
                        IF n = 0 THEN 0 ELSE S[n - 1] + vmHandles[n]
                IN S[NThreads]

\* ---------------------------------------------------------------------------
\* Backend status codes and their translation (applevisor-sys, error.rs,
\* hv_unsafe_call!)
\* ---------------------------------------------------------------------------

\* enum hv_error_t: each discriminant as <<high 16 bits, low 16 bits>>.
hv_error_t ==
    [HV_SUCCESS |-> <<0, 0>>,
     HV_ERROR |-> <<64233, 16385>>,
     HV_BUSY |-> <<64233, 16386>>,
     HV_BAD_ARGUMENT |-> <<64233, 16387>>,
     HV_ILLEGAL_GUEST_STATE |-> <<64233, 16388>>,
     HV_NO_RESOURCES |-> <<64233, 16389>>,
     HV_NO_DEVICE |-> <<64233, 16390>>,
     HV_DENIED |-> <<64233, 16391>>,
     HV_FAULT |-> <<64233, 16392>>,
     HV_UNSUPPORTED |-> <<64233, 16399>>]

\* `.. as hv_return_t` / `.. as i32`: the 32 bits read as two's complement.
as_hv_return_t(d) ==
    (IF d[1] >= 2^15 THEN d[1] - Limb ELSE d[1]) * Limb + d[2]

\* impl From<hv_return_t> for HypervisorError: the first arm that matches.
HypervisorError_from(code) ==
    IF code = as_hv_return_t(hv_error_t.HV_BAD_ARGUMENT) THEN <<"BadArgument">>
    ELSE IF code = as_hv_return_t(hv_error_t.HV_BUSY) THEN <<"Busy">>
    ELSE IF code = as_hv_return_t(hv_error_t.HV_DENIED) THEN <<"Denied">>
    ELSE IF code = as_hv_return_t(hv_error_t.HV_ERROR) THEN <<"Error">>
    ELSE IF code = as_hv_return_t(hv_error_t.HV_FAULT) THEN <<"Fault">>
    ELSE IF code = as_hv_return_t(hv_error_t.HV_ILLEGAL_GUEST_STATE)
            THEN <<"IllegalState">>
    ELSE IF code = as_hv_return_t(hv_error_t.HV_NO_DEVICE) THEN <<"NoDevice">>
    ELSE IF code = as_hv_return_t(hv_error_t.HV_NO_RESOURCES)
            THEN <<"NoResources">>
    ELSE IF code = as_hv_return_t(hv_error_t.HV_UNSUPPORTED)
            THEN <<"Unsupported">>
    ELSE <<"Unknown", code>>

\* hv_unsafe_call!: Ok(()) for HV_SUCCESS, Err(HypervisorError::from(code))
\* for any other status.
hv_unsafe_call_nonnegative(status) ==
    IF status >= 0 THEN <<"Ok">>
    ELSE <<"Err", HypervisorError_from(status)>>

hv_unsafe_call(status) ==
    IF status = as_hv_return_t(hv_error_t.HV_SUCCESS) THEN <<"Ok">>
    ELSE <<"Err", HypervisorError_from(status)>>

\* ---------------------------------------------------------------------------
\* Backend (Hypervisor.framework), one VM per process
\* ---------------------------------------------------------------------------

\* hv_vm_create: HV_BUSY while a VM exists for the process.
hv_vm_create == IF hvVms > 0 THEN "Busy" ELSE "Ok"

\* ---------------------------------------------------------------------------
\* VirtualMachine / VirtualMachineInstance (vm.rs)
\* ---------------------------------------------------------------------------

\* VirtualMachine::new: `hv_unsafe_call!(hv_vm_create(..))?` then a handle
\* holding a fresh Arc.  Yields TRUE when a handle is returned.
NewReturnsHandleIgnoringStatus(status) == TRUE

NewReturnsHandle(status) == status = "Ok"

VirtualMachine_new(t) ==
    /\ pc[t] = "idle"
    /\ LET status == hv_vm_create IN
       /\ ret' = <<"new", status>>
       /\ hvVms' = IF status = "Ok" THEN hvVms + 1 ELSE hvVms
       /\ IF NewReturnsHandle(status)
             THEN /\ guard' = 1
                  /\ vmHandles' = [vmHandles EXCEPT ![t] = @ + 1]
                  /\ derived' = FALSE
             ELSE UNCHANGED <<guard, vmHandles, derived>>
    /\ UNCHANGED <<hvVmBadDestroy, hvVcpu, hvMaps, hvLast, pc, dropId>>
    /\ UNCHANGED <<vcpuVars, exitVars, memVars>>
    /\ UNCHANGED staticVars

\* #[derive(Clone)] on VirtualMachineInstance: Arc::clone of _guard.  The
\* clone ends up owned by thread t (clone, then move into the thread).
Clone(s, t) ==
    /\ pc[s] = "idle" /\ pc[t] = "idle"
    /\ vmHandles[s] > 0
    /\ TotalHandles < MaxHandles
    /\ guard' = guard + 1
    /\ vmHandles' = [vmHandles EXCEPT ![t] = @ + 1]
    /\ ret' = <<"clone", "Ok">>
    /\ UNCHANGED <<hvVars, pc, derived, dropId>>
    /\ UNCHANGED <<vcpuVars, exitVars, memVars>>
    /\ UNCHANGED staticVars

\* A handle is Send: ownership moves from thread s to thread t.
SendHandle(s, t) ==
    /\ s # t
    /\ pc[s] = "idle" /\ pc[t] = "idle"
    /\ vmHandles[s] > 0
    /\ vmHandles' = [vmHandles EXCEPT ![s] = @ - 1, ![t] = @ + 1]
    /\ UNCHANGED <<hvVars, guard, pc, ret, derived, dropId>>
    /\ UNCHANGED <<vcpuVars, exitVars, memVars>>
    /\ UNCHANGED staticVars

\* Arc::into_inner(guard).is_some(): the atomic decrement that observed the
\* count going from 1 to 0.
IntoInnerIsSomeAlways(count) == TRUE

IntoInnerIsSomeNever(count) == count = 0

IntoInnerIsSome(count) == count = 1

\* Drop for VirtualMachineInstance, first step: take the guard and
\* Arc::into_inner it.
Drop_VirtualMachineInstance(t) ==
    /\ pc[t] = "idle"
    /\ vmHandles[t] > 0
    /\ vmHandles' = [vmHandles EXCEPT ![t] = @ - 1]
    /\ guard' = guard - 1
    /\ pc' = [pc EXCEPT ![t] = IF IntoInnerIsSome(guard)
                                  THEN "vm_destroy" ELSE "idle"]
    /\ UNCHANGED <<hvVars, ret, derived, dropId>>
    /\ UNCHANGED <<vcpuVars, exitVars, memVars>>
    /\ UNCHANGED staticVars

\* Drop for VirtualMachineInstance, second step: `let _ = hv_vm_destroy()`.
Drop_VirtualMachineInstance_destroy(t) ==
    /\ pc[t] = "vm_destroy"
    /\ hvVms' = IF hvVms > 0 THEN hvVms - 1 ELSE 0
    /\ hvVmBadDestroy' = (hvVmBadDestroy \/ hvVms = 0)
    /\ pc' = [pc EXCEPT ![t] = "idle"]
    /\ UNCHANGED <<hvVcpu, hvMaps, hvLast, guard, vmHandles, ret, derived,
                   dropId>>
    /\ UNCHANGED <<vcpuVars, exitVars, memVars>>
    /\ UNCHANGED staticVars

\* `let _ = hv_unsafe_call!(hv_vm_destroy())` when the backend answers with a
\* failure status: the VM stays, the result is discarded and drop returns.
Drop_VirtualMachineInstance_destroy_failed(t, status) ==
    /\ pc[t] = "vm_destroy"
    /\ status # "Ok"
    /\ pc' = [pc EXCEPT ![t] = "idle"]
    /\ UNCHANGED <<hvVars, guard, vmHandles, ret, derived, dropId>>
    /\ UNCHANGED <<vcpuVars, exitVars, memVars>>
    /\ UNCHANGED staticVars

\* ---------------------------------------------------------------------------
\* VirtualMachineStaticInstance (vm.rs): _VM_INSTANCE and _VM_INIT_LOCK
\* ---------------------------------------------------------------------------

\* hv_vm_create(config): HV_BUSY while a VM exists; a configuration the host
\* does not support is refused.
hv_vm_create_config(config) ==
    IF hvVms > 0 THEN "Busy"
    ELSE IF config = "rejected" THEN "BadArgument"
    ELSE "Ok"

\* hv_gic_create(gic_config)
hv_gic_create(gic_config) ==
    IF gic_config = "rejected" THEN "BadArgument" ELSE "Ok"

\* `_VM_INIT_LOCK.lock()` returns once no other thread holds the mutex.
LockFreeAlways(lock) == TRUE

LockFree(lock) == lock = 0

\* The variant `set` stores: NoGic for init and init_with_config, Gic for
\* init_with_gic.
VariantNoGic(fn) == "NoGic"

Variant(fn) == IF fn = "init_with_gic" THEN "Gic" ELSE "NoGic"

\* `vm_static_instance!().get().is_some()`
instance_is_some_never(instance) == FALSE

instance_is_some(instance) == instance # "unset"

\* `_guard` (the MutexGuard) goes out of scope when the init function
\* returns, by `?` as well as at its end: the mutex is free again.
MutexGuard_leaked(lock) == lock

MutexGuard_drop(lock) == 0

\* init / init_with_config / init_with_gic, entry: the check outside the lock.
init_begin(t, fn, vm_config, gic_config) ==
    /\ pc[t] = "idle"
    /\ IF instance_is_some(VM_INSTANCE)
          THEN /\ ret' = <<fn, "Ok">>
               /\ UNCHANGED <<pc, initCall>>
          ELSE /\ pc' = [pc EXCEPT ![t] = "init_lock"]
               /\ initCall' = [initCall EXCEPT ![t] =
                                 [fn |-> fn, vm_config |-> vm_config,
                                  gic_config |-> gic_config]]
               /\ UNCHANGED ret
    /\ UNCHANGED <<hvVars, guard, vmHandles, derived, dropId>>
    /\ UNCHANGED <<vcpuVars, exitVars, memVars>>
    /\ UNCHANGED <<VM_INSTANCE, VM_INIT_LOCK, initCreated, hvReturn>>

\* `let _guard = _VM_INIT_LOCK.lock().unwrap()`: a poisoned mutex panics.
init_lock(t) ==
    /\ pc[t] = "init_lock"
    /\ IF VM_INIT_LOCK = -1
          THEN /\ pc' = [pc EXCEPT ![t] = "panicked"]
               /\ UNCHANGED VM_INIT_LOCK
          ELSE /\ LockFree(VM_INIT_LOCK)
               /\ VM_INIT_LOCK' = t
               /\ pc' = [pc EXCEPT ![t] = "init_check"]
    /\ UNCHANGED <<hvVars, guard, vmHandles, ret, derived, dropId>>
    /\ UNCHANGED <<vcpuVars, exitVars, memVars>>
    /\ UNCHANGED <<VM_INSTANCE, initCall, initCreated, hvReturn>>

\* The check under the lock; returning drops the MutexGuard.
init_check(t) ==
    /\ pc[t] = "init_check"
    /\ IF instance_is_some(VM_INSTANCE)
          THEN /\ ret' = <<initCall[t].fn, "Ok">>
               /\ VM_INIT_LOCK' = MutexGuard_drop(VM_INIT_LOCK)
               /\ initCall' = [initCall EXCEPT ![t] = NoCall]
               /\ pc' = [pc EXCEPT ![t] = "idle"]
          ELSE /\ pc' = [pc EXCEPT ![t] = "init_create"]
               /\ UNCHANGED <<ret, VM_INIT_LOCK, initCall>>
    /\ UNCHANGED <<hvVars, guard, vmHandles, derived, dropId>>
    /\ UNCHANGED <<vcpuVars, exitVars, memVars>>
    /\ UNCHANGED <<VM_INSTANCE, initCreated, hvReturn>>

\* `VirtualMachine::new()?` / `with_config(vm_config)?` / the with_config
\* call inside with_gic.
init_create(t) ==
    /\ pc[t] = "init_create"
    /\ LET status == hv_vm_create_config(initCall[t].vm_config) IN
       IF status = "Ok"
          THEN /\ hvVms' = hvVms + 1
               /\ guard' = 1
               /\ derived' = FALSE
               /\ initCreated' = TRUE
               /\ pc' = [pc EXCEPT ![t] =
                           IF initCall[t].fn = "init_with_gic"
                              THEN "init_gic" ELSE "init_set"]
               /\ UNCHANGED <<ret, VM_INIT_LOCK, initCall>>
          ELSE /\ ret' = <<initCall[t].fn, status>>
               /\ VM_INIT_LOCK' = MutexGuard_drop(VM_INIT_LOCK)
               /\ initCall' = [initCall EXCEPT ![t] = NoCall]
               /\ pc' = [pc EXCEPT ![t] = "idle"]
               /\ UNCHANGED <<hvVms, guard, derived, initCreated>>
    /\ UNCHANGED <<hvVmBadDestroy, hvVcpu, hvMaps, hvLast, vmHandles, dropId>>
    /\ UNCHANGED <<vcpuVars, exitVars, memVars>>
    /\ UNCHANGED <<VM_INSTANCE, hvReturn>>

\* with_gic after the VM exists: `hv_gic_create(gic_config.0)?`.  On success
\* the GicEnabled handle clones the guard and `vm` is dropped (the count goes
\* 1 -> 2 -> 1); on failure `vm` is dropped holding the only reference.
init_gic(t) ==
    /\ pc[t] = "init_gic"
    /\ IF hv_gic_create(initCall[t].gic_config) = "Ok"
          THEN /\ pc' = [pc EXCEPT ![t] = "init_set"]
               /\ UNCHANGED guard
          ELSE /\ pc' = [pc EXCEPT ![t] = "init_gic_destroy"]
               /\ guard' = guard - 1
    /\ UNCHANGED <<hvVars, vmHandles, ret, derived, dropId>>
    /\ UNCHANGED <<vcpuVars, exitVars, memVars>>
    /\ UNCHANGED staticVars

\* ... the drop of `vm` destroys the VM, then init_with_gic returns the error
\* of hv_gic_create.
init_gic_destroy(t) ==
    /\ pc[t] = "init_gic_destroy"
    /\ hvVms' = IF hvVms > 0 THEN hvVms - 1 ELSE 0
    /\ hvVmBadDestroy' = (hvVmBadDestroy \/ hvVms = 0)
    /\ ret' = <<initCall[t].fn, hv_gic_create(initCall[t].gic_config)>>
    /\ VM_INIT_LOCK' = MutexGuard_drop(VM_INIT_LOCK)
    /\ initCall' = [initCall EXCEPT ![t] = NoCall]
    /\ pc' = [pc EXCEPT ![t] = "idle"]
    /\ UNCHANGED <<hvVcpu, hvMaps, hvLast, guard, vmHandles, derived, dropId>>
    /\ UNCHANGED <<vcpuVars, exitVars, memVars>>
    /\ UNCHANGED <<VM_INSTANCE, initCreated, hvReturn>>

\* `vm_static_instance!().set(..).unwrap()`, then Ok(()).  OnceLock::set
\* fails when the cell is already set; unwrap then panics, the handle inside
\* the Err is dropped and the mutex is poisoned.
init_set(t) ==
    /\ pc[t] = "init_set"
    /\ IF VM_INSTANCE = "unset"
          THEN /\ VM_INSTANCE' = Variant(initCall[t].fn)
               /\ ret' = <<initCall[t].fn, "Ok">>
               /\ VM_INIT_LOCK' = MutexGuard_drop(VM_INIT_LOCK)
               /\ pc' = [pc EXCEPT ![t] = "idle"]
               /\ UNCHANGED <<guard, hvVms>>
          ELSE /\ pc' = [pc EXCEPT ![t] = "panicked"]
               /\ VM_INIT_LOCK' = -1
               /\ guard' = guard - 1
               /\ hvVms' = IF IntoInnerIsSome(guard) /\ hvVms > 0
                              THEN hvVms - 1 ELSE hvVms
               /\ UNCHANGED <<VM_INSTANCE, ret>>
    /\ initCall' = [initCall EXCEPT ![t] = NoCall]
    /\ UNCHANGED <<hvVmBadDestroy, hvVcpu, hvMaps, hvLast, vmHandles, derived,
                   dropId>>
    /\ UNCHANGED <<vcpuVars, exitVars, memVars>>
    /\ UNCHANGED <<initCreated, hvReturn>>

\* VirtualMachineStaticInstance::get: a GicDisabled clone of the stored
\* handle, whatever the variant (for Gic: clone, convert, drop the clone).
get(t) ==
    /\ pc[t] = "idle"
    /\ IF VM_INSTANCE = "unset"
          THEN /\ ret' = <<"get", "None">>
               /\ UNCHANGED <<guard, vmHandles>>
          ELSE /\ TotalHandles < MaxHandles
               /\ ret' = <<"get", "Some">>
               /\ guard' = guard + 1
               /\ vmHandles' = [vmHandles EXCEPT ![t] = @ + 1]
    /\ UNCHANGED <<hvVars, pc, derived, dropId>>
    /\ UNCHANGED <<vcpuVars, exitVars, memVars>>
    /\ UNCHANGED staticVars

\* VirtualMachineStaticInstance::get_gic: a clone only of a Gic variant.
get_gic(t) ==
    /\ pc[t] = "idle"
    /\ IF VM_INSTANCE = "Gic"
          THEN /\ TotalHandles < MaxHandles
               /\ ret' = <<"get_gic", "Some">>
               /\ guard' = guard + 1
               /\ vmHandles' = [vmHandles EXCEPT ![t] = @ + 1]
          ELSE /\ ret' = <<"get_gic", "None">>
               /\ UNCHANGED <<guard, vmHandles>>
    /\ UNCHANGED <<hvVars, pc, derived, dropId>>
    /\ UNCHANGED <<vcpuVars, exitVars, memVars>>
    /\ UNCHANGED staticVars

\* VirtualMachine::with_gic, `let vm = Self::with_config(vm_config)?`: the
\* error of hv_vm_create(config) is returned at once; otherwise the local
\* `vm` holds the fresh Arc.
with_gic(t, vm_config, gic_config) ==
    /\ pc[t] = "idle"
    /\ LET status == hv_vm_create_config(vm_config) IN
       IF status = "Ok"
          THEN /\ hvVms' = hvVms + 1
               /\ guard' = 1
               /\ derived' = FALSE
               /\ initCall' = [initCall EXCEPT ![t] =
                                 [fn |-> "with_gic", vm_config |-> vm_config,
                                  gic_config |-> gic_config]]
               /\ pc' = [pc EXCEPT ![t] = "with_gic_create"]
               /\ UNCHANGED ret
          ELSE /\ ret' = <<"with_gic", status>>
               /\ UNCHANGED <<hvVms, guard, derived, initCall, pc>>
    /\ UNCHANGED <<hvVmBadDestroy, hvVcpu, hvMaps, hvLast, vmHandles, dropId>>
    /\ UNCHANGED <<vcpuVars, exitVars, memVars>>
    /\ UNCHANGED <<VM_INSTANCE, VM_INIT_LOCK, initCreated, hvReturn>>

\* `_guard: vm._guard.clone()`: the returned handle owns a second reference.
with_gic_guard_moved(count) == count

with_gic_guard(count) == count + 1

\* `hv_unsafe_call!(hv_gic_create(gic_config.0))?`, the construction of the
\* GicEnabled handle on success, and the scope end of `vm`: its drop takes
\* the guard and Arc::into_inner's it.  When that is not the last reference
\* with_gic returns here.
with_gic_create(t) ==
    /\ pc[t] = "with_gic_create"
    /\ LET status == hv_gic_create(initCall[t].gic_config)
           count == IF status = "Ok" THEN with_gic_guard(guard) ELSE guard IN
       /\ guard' = count - 1
       /\ IF IntoInnerIsSome(count)
             THEN /\ pc' = [pc EXCEPT ![t] = "with_gic_destroy"]
                  /\ UNCHANGED <<ret, vmHandles, initCall>>
             ELSE /\ pc' = [pc EXCEPT ![t] = "idle"]
                  /\ ret' = <<"with_gic", status>>
                  /\ vmHandles' = [vmHandles EXCEPT ![t] =
                                     IF status = "Ok" THEN @ + 1 ELSE @]
                  /\ initCall' = [initCall EXCEPT ![t] = NoCall]
    /\ UNCHANGED <<hvVars, derived, dropId>>
    /\ UNCHANGED <<vcpuVars, exitVars, memVars>>
    /\ UNCHANGED <<VM_INSTANCE, VM_INIT_LOCK, initCreated, hvReturn>>

\* ... when it is the last reference: `let _ = hv_vm_destroy()`, then with_gic
\* returns.
with_gic_destroy(t) ==
    /\ pc[t] = "with_gic_destroy"
    /\ hvVms' = IF hvVms > 0 THEN hvVms - 1 ELSE 0
    /\ hvVmBadDestroy' = (hvVmBadDestroy \/ hvVms = 0)
    /\ LET status == hv_gic_create(initCall[t].gic_config) IN
       /\ ret' = <<"with_gic", status>>
       /\ vmHandles' = [vmHandles EXCEPT ![t] =
                          IF status = "Ok" THEN @ + 1 ELSE @]
    /\ initCall' = [initCall EXCEPT ![t] = NoCall]
    /\ pc' = [pc EXCEPT ![t] = "idle"]
    /\ UNCHANGED <<hvVcpu, hvMaps, hvLast, guard, derived, dropId>>
    /\ UNCHANGED <<vcpuVars, exitVars, memVars>>
    /\ UNCHANGED <<VM_INSTANCE, VM_INIT_LOCK, initCreated, hvReturn>>

\* `_guard: value._guard.clone()` in From<VirtualMachineInstance<GicEnabled>>
\* for VirtualMachineInstance<GicDisabled>.
from_guard_moved(count) == count

from_guard(count) == count + 1

\* GicDisabled::from(value), first step: the new handle is built with a clone
\* of the guard.  The Gic parameter is a PhantomData marker, so both kinds of
\* handle are the same object at run time.
from_GicEnabled(t) ==
    /\ pc[t] = "idle"
    /\ vmHandles[t] > 0
    /\ guard' = from_guard(guard)
    /\ pc' = [pc EXCEPT ![t] = "from_drop"]
    /\ UNCHANGED <<hvVars, vmHandles, ret, derived, dropId>>
    /\ UNCHANGED <<vcpuVars, exitVars, memVars>>
    /\ UNCHANGED staticVars

\* GicDisabled::from(value), second step: `value` goes out of scope, its
\* drop takes the guard and Arc::into_inner's it, and the new handle is
\* returned in its place; were it the last reference, hv_vm_destroy would
\* be called first (position "from_destroy").
from_GicEnabled_drop(t) ==
    /\ pc[t] = "from_drop"
    /\ guard' = guard - 1
    /\ pc' = [pc EXCEPT ![t] = IF IntoInnerIsSome(guard)
                                  THEN "from_destroy" ELSE "idle"]
    /\ ret' = IF IntoInnerIsSome(guard) THEN ret ELSE <<"from", "Ok">>
    /\ UNCHANGED <<hvVars, vmHandles, derived, dropId>>
    /\ UNCHANGED <<vcpuVars, exitVars, memVars>>
    /\ UNCHANGED staticVars

\* ---------------------------------------------------------------------------
\* Vcpu / VcpuHandle (vcpu.rs) and the vCPU operations of the VM (vm.rs)
\* ---------------------------------------------------------------------------

\* hv_vcpu_create: the backend hands out the lowest unused identifier.
FreshVcpu == CHOOSE v \in VcpuIds :
                /\ vcpuObj[v] = "none"
                /\ \A w \in VcpuIds : vcpuObj[w] = "none" => v <= w

\* `_guard_vm: Arc::clone(self._guard.as_ref().unwrap())`
vcpu_guard_vm_not_taken(count) == count

vcpu_guard_vm(count) == count + 1

\* VirtualMachineInstance::vcpu_with_config (vcpu_create passes a null config)
vcpu_with_config(t, status) ==
    /\ pc[t] = "idle"
    /\ vmHandles[t] > 0
    /\ \E v \in VcpuIds : vcpuObj[v] = "none"
    /\ ret' = <<"vcpu_with_config", status>>
    /\ IF status = "Ok"
          THEN LET v == FreshVcpu IN
               /\ hvVcpu' = [hvVcpu EXCEPT ![v] = "live"]
               /\ vcpuObj' = [vcpuObj EXCEPT ![v] = "live"]
               /\ vcpuOwner' = [vcpuOwner EXCEPT ![v] = t]
               /\ selfGuard' = [selfGuard EXCEPT ![v] = 1]
               /\ guard' = vcpu_guard_vm(guard)
               /\ derived' = TRUE
               /\ hvVcpuLog' = [hvVcpuLog EXCEPT ![v].creator = t]
          ELSE UNCHANGED <<hvVcpu, vcpuObj, vcpuOwner, selfGuard, guard,
                           derived, hvVcpuLog>>
    /\ UNCHANGED <<hvVms, hvVmBadDestroy, hvMaps, hvLast, vmHandles, pc,
                   handleOut, dropId>>
    /\ UNCHANGED <<exitVars, memVars>>
    /\ UNCHANGED staticVars

\* Vcpu::get_handle: a Weak of _guard_self; the handle is Clone + Send, so
\* from here on every thread may hold a copy.
get_handle(t, v) ==
    /\ pc[t] = "idle"
    /\ vcpuObj[v] = "live" /\ vcpuOwner[v] = t
    /\ ~handleOut[v]
    /\ handleOut' = [handleOut EXCEPT ![v] = TRUE]
    /\ UNCHANGED <<hvVars, guard, vmHandles, pc, ret, derived, vcpuObj,
                   vcpuOwner, selfGuard, dropId>>
    /\ UNCHANGED <<exitVars, memVars>>
    /\ UNCHANGED staticVars
    /\ UNCHANGED hvVcpuLog

\* VcpuHandle::is_valid: Weak::strong_count(&self._guard) > 0
StrongCountAny(count) == count >= 0

StrongCountPositive(count) == count > 0

is_valid(t, v) ==
    /\ pc[t] = "idle"
    /\ handleOut[v]
    /\ ret' = <<"is_valid", v, StrongCountPositive(selfGuard[v])>>
    /\ UNCHANGED <<hvVars, guard, vmHandles, pc, derived, dropId>>
    /\ UNCHANGED <<vcpuVars, exitVars, memVars>>
    /\ UNCHANGED staticVars

\* A backend call that drives vCPU v, issued by thread t: the backend notes
\* a caller that is not the creating thread and a call on a destroyed vCPU.
HvVcpuCall(t, v) ==
    [hvVcpuLog[v] EXCEPT
        !.foreign = @ \/ t # hvVcpuLog[v].creator,
        !.stale = @ \/ hvVcpu[v] = "destroyed"]

\* Thread t has the Vcpu v in scope.  Vcpu is neither Send nor Sync
\* (PhantomData<*const ()>, *const hv_vcpu_exit_t): only the thread that
\* created it can name it.
HoldsVcpuAfterDrop(t, v) == vcpuObj[v] # "none" /\ vcpuOwner[v] = t

HoldsVcpuShared(t, v) == vcpuObj[v] = "live"

HoldsVcpu(t, v) == vcpuObj[v] = "live" /\ vcpuOwner[v] = t

\* Vcpu::run: hv_vcpu_run(self.vcpu)
Vcpu_run(t, v) ==
    /\ pc[t] = "idle"
    /\ HoldsVcpu(t, v)
    /\ hvVcpuLog' = [hvVcpuLog EXCEPT ![v] = HvVcpuCall(t, v)]
    /\ ret' = <<"run", v, "Ok">>
    /\ UNCHANGED <<hvVars, guard, vmHandles, pc, derived, vcpuObj, vcpuOwner,
                   selfGuard, handleOut, dropId>>
    /\ UNCHANGED <<exitVars, memVars>>
    /\ UNCHANGED staticVars

\* Vcpu::get_reg: hv_vcpu_get_reg(self.vcpu, reg, &mut value)?, Ok(value)
Vcpu_get_reg(t, v) ==
    /\ pc[t] = "idle"
    /\ HoldsVcpu(t, v)
    /\ hvVcpuLog' = [hvVcpuLog EXCEPT ![v] = HvVcpuCall(t, v)]
    /\ ret' = <<"get_reg", v, "Ok", hvVcpuLog[v].reg>>
    /\ UNCHANGED <<hvVars, guard, vmHandles, pc, derived, vcpuObj, vcpuOwner,
                   selfGuard, handleOut, dropId>>
    /\ UNCHANGED <<exitVars, memVars>>
    /\ UNCHANGED staticVars

\* Vcpu::set_reg: hv_vcpu_set_reg(self.vcpu, reg, value)
Vcpu_set_reg(t, v, value) ==
    /\ pc[t] = "idle"
    /\ HoldsVcpu(t, v)
    /\ hvVcpuLog' = [hvVcpuLog EXCEPT
                        ![v] = [HvVcpuCall(t, v) EXCEPT !.reg = value]]
    /\ ret' = <<"set_reg", v, "Ok">>
    /\ UNCHANGED <<hvVars, guard, vmHandles, pc, derived, vcpuObj, vcpuOwner,
                   selfGuard, handleOut, dropId>>
    /\ UNCHANGED <<exitVars, memVars>>
    /\ UNCHANGED staticVars

\* Drop for Vcpu: hv_vcpu_destroy(self.vcpu), expected to succeed.
Drop_Vcpu(t, v) ==
    /\ pc[t] = "idle"
    /\ vcpuObj[v] = "live" /\ vcpuOwner[v] = t
    /\ hvVcpu' = [hvVcpu EXCEPT ![v] = "destroyed"]
    /\ hvVcpuLog' = [hvVcpuLog EXCEPT
                        ![v] = [HvVcpuCall(t, v) EXCEPT !.destroys = @ + 1]]
    /\ vcpuObj' = [vcpuObj EXCEPT ![v] = "dropping"]
    /\ dropId' = [dropId EXCEPT ![t] = v]
    /\ pc' = [pc EXCEPT ![t] = "vcpu_drop_vm"]
    /\ UNCHANGED <<hvVms, hvVmBadDestroy, hvMaps, hvLast, guard, vmHandles,
                   ret, derived, vcpuOwner, selfGuard, handleOut>>
    /\ UNCHANGED <<exitVars, memVars>>
    /\ UNCHANGED staticVars

\* Then the fields are dropped in declaration order: _guard_vm is a plain
\* Arc<()>, its release calls nothing.
Drop_Vcpu_guard_vm(t) ==
    /\ pc[t] = "vcpu_drop_vm"
    /\ guard' = guard - 1
    /\ pc' = [pc EXCEPT ![t] = "vcpu_drop_self"]
    /\ UNCHANGED <<hvVars, vmHandles, ret, derived, dropId>>
    /\ UNCHANGED <<vcpuVars, exitVars, memVars>>
    /\ UNCHANGED staticVars

\* ... and last _guard_self, the token the handles watch.
Drop_Vcpu_guard_self(t) ==
    /\ pc[t] = "vcpu_drop_self"
    /\ selfGuard' = [selfGuard EXCEPT ![dropId[t]] = @ - 1]
    /\ vcpuObj' = [vcpuObj EXCEPT ![dropId[t]] = "dropped"]
    /\ dropId' = [dropId EXCEPT ![t] = 0]
    /\ pc' = [pc EXCEPT ![t] = "idle"]
    /\ UNCHANGED <<hvVars, guard, vmHandles, ret, derived, vcpuOwner,
                   handleOut>>
    /\ UNCHANGED <<exitVars, memVars>>
    /\ UNCHANGED staticVars
    /\ UNCHANGED hvVcpuLog

\* The handle slices a caller can pass to vcpus_exit.
RECURSIVE SeqsUpTo(_, _)
SeqsUpTo(S, n) ==
    IF n = 0 THEN {<<>>}
    ELSE LET R == SeqsUpTo(S, n - 1)
         IN R \cup {Append(r, x) : r \in {q \in R : Len(q) = n - 1}, x \in S}

Range(f) == {f[i] : i \in DOMAIN f}

HandleSlices == SeqsUpTo({v \in VcpuIds : handleOut[v]}, MaxExitLen)

\* VirtualMachineInstance::vcpus_exit, entry: two empty vectors.
vcpus_exit(t, vcpus) ==
    /\ pc[t] = "idle"
    /\ vmHandles[t] > 0
    /\ exitArg' = [exitArg EXCEPT ![t] = vcpus]
    /\ exitIds' = [exitIds EXCEPT ![t] = <<>>]
    /\ exitGuards' = [exitGuards EXCEPT ![t] = <<>>]
    /\ exitAlive' = [exitAlive EXCEPT ![t] = <<>>]
    /\ hvExitLog' = [hvExitLog EXCEPT ![t] = <<>>]
    /\ pc' = [pc EXCEPT ![t] = IF vcpus = <<>> THEN "exit_call"
                                  ELSE "exit_loop"]
    /\ UNCHANGED <<hvVars, guard, vmHandles, ret, derived, dropId>>
    /\ UNCHANGED <<vcpuVars, memVars>>
    /\ UNCHANGED staticVars

\* VcpuHandle::take_ref: Weak::upgrade succeeds while the strong count is
\* not zero.
take_ref(count) == count > 0

\* One iteration of the loop of vcpus_exit.
vcpus_exit_loop(t) ==
    /\ pc[t] = "exit_loop"
    /\ LET v == Head(exitArg[t]) IN
       /\ IF take_ref(selfGuard[v])
             THEN /\ selfGuard' = [selfGuard EXCEPT ![v] = @ + 1]
                  /\ exitIds' = [exitIds EXCEPT ![t] = Append(@, v)]
                  /\ exitGuards' = [exitGuards EXCEPT ![t] = Append(@, v)]
             ELSE UNCHANGED <<selfGuard, exitIds, exitGuards>>
       /\ exitAlive' = [exitAlive EXCEPT ![t] =
                           IF vcpuObj[v] # "dropped" THEN Append(@, v) ELSE @]
    /\ exitArg' = [exitArg EXCEPT ![t] = Tail(@)]
    /\ pc' = [pc EXCEPT ![t] = IF Len(exitArg[t]) = 1
                                  THEN "exit_call" ELSE "exit_loop"]
    /\ UNCHANGED <<hvVars, guard, vmHandles, ret, derived, vcpuObj, vcpuOwner,
                   handleOut, dropId, hvExitLog>>
    /\ UNCHANGED memVars
    /\ UNCHANGED staticVars
    /\ UNCHANGED hvVcpuLog

\* hv_vcpus_exit: succeeds on live vCPUs; what it answers for an identifier
\* that was destroyed is not specified.
hv_vcpus_exit(ids) ==
    IF \A i \in 1..Len(ids) : hvVcpu[ids[i]] = "live"
       THEN {"Ok"} ELSE {"Ok", "BadArgument"}

\* `hv_unsafe_call!(hv_vcpus_exit(ids.as_ptr(), ids.len() as u32))?`
vcpus_exit_call(t) ==
    /\ pc[t] = "exit_call"
    /\ \E status \in hv_vcpus_exit(exitIds[t]) :
          ret' = <<"vcpus_exit", status>>
    /\ hvExitLog' = [hvExitLog EXCEPT ![t] = Append(@, exitIds[t])]
    /\ pc' = [pc EXCEPT ![t] = "exit_release"]
    /\ UNCHANGED <<hvVars, guard, vmHandles, derived, dropId, exitArg,
                   exitIds, exitGuards, exitAlive>>
    /\ UNCHANGED <<vcpuVars, memVars>>
    /\ UNCHANGED staticVars

\* Scope end of vcpus_exit (Ok or Err): `guards` releases its Arcs one by one.
vcpus_exit_release(t) ==
    /\ pc[t] = "exit_release"
    /\ exitGuards[t] # <<>>
    /\ selfGuard' = [selfGuard EXCEPT ![Head(exitGuards[t])] = @ - 1]
    /\ exitGuards' = [exitGuards EXCEPT ![t] = Tail(@)]
    /\ UNCHANGED <<hvVars, guard, vmHandles, pc, ret, derived, vcpuObj,
                   vcpuOwner, handleOut, dropId, exitArg, exitIds, exitAlive,
                   hvExitLog>>
    /\ UNCHANGED memVars
    /\ UNCHANGED staticVars
    /\ UNCHANGED hvVcpuLog

vcpus_exit_return(t) ==
    /\ pc[t] = "exit_release"
    /\ exitGuards[t] = <<>>
    /\ exitIds' = [exitIds EXCEPT ![t] = <<>>]
    /\ exitAlive' = [exitAlive EXCEPT ![t] = <<>>]
    /\ hvExitLog' = [hvExitLog EXCEPT ![t] = <<>>]
    /\ pc' = [pc EXCEPT ![t] = "idle"]
    /\ UNCHANGED <<hvVars, guard, vmHandles, ret, derived, dropId, exitArg,
                   exitGuards>>
    /\ UNCHANGED <<vcpuVars, memVars>>
    /\ UNCHANGED staticVars

\* ---------------------------------------------------------------------------
\* Backend memory calls
\* ---------------------------------------------------------------------------

\* The backend records every memory call it receives.
HvCall(fn, ipa, size, flags) ==
    [fn |-> fn, ipa |-> ipa, size |-> size, flags |-> flags,
     seq |-> 1 - hvLast.seq]

\* hv_vm_allocate: memory for `size` bytes; sizes the host cannot back fail.
hv_vm_allocate(size) ==
    IF size[1] = 0 /\ size[2] = 0 /\ size[3] < 2^15 THEN "Ok"
    ELSE "NoResources"

\* [ipa, ipa + size) and an existing mapping intersect.
Overlaps(ipa, end, mp) ==
    LET mend == checked_add(mp.ipa, mp.size)
    IN U64Lt(ipa, mend) /\ U64Lt(mp.ipa, end)

\* hv_vm_map: page-aligned ipa, range inside the address space and disjoint
\* from the existing mappings.
hv_vm_map(ipa, size) ==
    LET end == checked_add(ipa, size) IN
    IF hvVms = 0 THEN "Error"
    ELSE IF ipa[4] % PAGE_SIZE # 0 \/ end = None THEN "BadArgument"
    ELSE IF \E mp \in hvMaps : Overlaps(ipa, end, mp) THEN "Error"
    ELSE "Ok"

\* hv_vm_unmap / hv_vm_protect: the range must be a mapping.
hv_vm_unmap(ipa, size) ==
    IF \E mp \in hvMaps : mp.ipa = ipa /\ mp.size = size THEN "Ok"
    ELSE "Error"

hv_vm_protect(ipa, size) == hv_vm_unmap(ipa, size)

\* ---------------------------------------------------------------------------
\* MemPerms, MemAlloc, Memory (memory.rs)
\* ---------------------------------------------------------------------------

\* hv_memory_flags_t constants
HV_MEMORY_NONE == 0
HV_MEMORY_READ == 1
HV_MEMORY_WRITE == 2
HV_MEMORY_EXEC == 4

\* `a | b` on flag words
RECURSIVE BitOr(_, _)
BitOr(a, b) ==
    IF a = 0 THEN b
    ELSE IF b = 0 THEN a
    ELSE (IF a % 2 = 1 \/ b % 2 = 1 THEN 1 ELSE 0)
         + 2 * BitOr(a \div 2, b \div 2)

\* impl From<MemPerms> for u64
u64_from_MemPerms(val) ==
    CASE val = "None" -> HV_MEMORY_NONE
      [] val = "Read" -> HV_MEMORY_READ
      [] val = "Write" -> HV_MEMORY_WRITE
      [] val = "Exec" -> HV_MEMORY_EXEC
      [] val = "ReadWrite" -> BitOr(HV_MEMORY_READ, HV_MEMORY_WRITE)
      [] val = "ReadExec" -> BitOr(HV_MEMORY_READ, HV_MEMORY_EXEC)
      [] val = "WriteExec" -> BitOr(HV_MEMORY_WRITE, HV_MEMORY_EXEC)
      [] val = "ReadWriteExec" ->
            BitOr(BitOr(HV_MEMORY_READ, HV_MEMORY_WRITE), HV_MEMORY_EXEC)

\* enum MemPerms in declaration order.
MemPerms == <<"None", "Read", "Write", "Exec", "ReadWrite", "ReadExec",
              "WriteExec", "ReadWriteExec">>

\* `perms as u64`: the discriminant of the variant.
perms_as_u64(p) == (CHOOSE i \in 1..Len(MemPerms) : MemPerms[i] = p) - 1

\* impl From<u64> for MemPerms: the match on the flag combinations, with
\* every other value falling to None.
MemPerms_from_discriminant(value) ==
    IF value < Len(MemPerms) THEN MemPerms[value + 1] ELSE "None"

MemPerms_from(value) ==
    CASE value = HV_MEMORY_READ -> "Read"
      [] value = HV_MEMORY_WRITE -> "Write"
      [] value = HV_MEMORY_EXEC -> "Exec"
      [] value = BitOr(HV_MEMORY_READ, HV_MEMORY_WRITE) -> "ReadWrite"
      [] value = BitOr(HV_MEMORY_READ, HV_MEMORY_EXEC) -> "ReadExec"
      [] value = BitOr(HV_MEMORY_WRITE, HV_MEMORY_EXEC) -> "WriteExec"
      [] value = BitOr(BitOr(HV_MEMORY_READ, HV_MEMORY_WRITE),
                       HV_MEMORY_EXEC) -> "ReadWriteExec"
      [] OTHER -> "None"

\* impl BitOr for MemPerms
bitor(self, rhs) ==
    MemPerms_from(BitOr(u64_from_MemPerms(self), u64_from_MemPerms(rhs)))

\* The frame of an evaluation that only returns a value.
PureFrame ==
    /\ UNCHANGED <<hvVars, guard, vmHandles, pc, derived, dropId>>
    /\ UNCHANGED <<vcpuVars, exitVars, memVars>>
    /\ UNCHANGED staticVars

\* `a | b`
MemPerms_bitor(a, b) ==
    /\ ret' = <<"bitor", a, b, bitor(a, b)>>
    /\ PureFrame

\* `(a | b) | c`, from the value of `a | b`
MemPerms_bitor_again(c) ==
    /\ ret[1] = "bitor"
    /\ ret' = <<"bitor_again", ret[2], ret[3], c, bitor(ret[4], c)>>
    /\ PureFrame

\* `u64::from(p)`
MemPerms_into_u64(p) ==
    /\ ret' = <<"into", p, u64_from_MemPerms(p)>>
    /\ PureFrame

\* `MemPerms::from(value)`
MemPerms_from_u64(value) ==
    /\ ret' = <<"from", value, MemPerms_from(value)>>
    /\ PureFrame

RoundUpIdentity(size) == size

RoundUpNoModulo(size) ==
    checked_add(size, U64Of(PAGE_SIZE - (size[4] % PAGE_SIZE)))

\* MemAlloc::new: round up to the next PAGE_SIZE multiple with checked_add.
RoundUp(size) ==
    checked_add(size, U64Of((PAGE_SIZE - (size[4] % PAGE_SIZE)) % PAGE_SIZE))

MemAlloc_new(size) ==
    IF RoundUp(size) = None THEN "BadArgument"
    ELSE hv_vm_allocate(RoundUp(size))

FreshMem == CHOOSE m \in MemIds :
               /\ mem[m].state = "none"
               /\ \A n \in MemIds : mem[n].state = "none" => m <= n

\* `_guard_vm: Arc::clone(self._guard.as_ref().unwrap())`
memory_guard_vm(count) == count + 1

\* `host_alloc: MemAlloc::new(size)?` comes before the guard is cloned: an
\* error returns with the count untouched.
memory_create_guard_first(status, count) == memory_guard_vm(count)

memory_create_guard(status, count) ==
    IF status = "Ok" THEN memory_guard_vm(count) ELSE count

\* VirtualMachineInstance::memory_create
memory_create(t, size) ==
    /\ pc[t] = "idle"
    /\ vmHandles[t] > 0
    /\ \E m \in MemIds : mem[m].state = "none"
    /\ LET status == MemAlloc_new(size)
           m == FreshMem IN
       /\ ret' = <<"memory_create", status>>
       /\ hvLast' = IF RoundUp(size) = None THEN hvLast
                    ELSE HvCall("hv_vm_allocate", None, RoundUp(size), 0)
       /\ guard' = memory_create_guard(status, guard)
       /\ IF status = "Ok"
             THEN /\ mem' = [mem EXCEPT ![m] =
                               [state |-> "live", owner |-> t,
                                size |-> RoundUp(size), guest_addr |-> None]]
                  /\ derived' = TRUE
             ELSE UNCHANGED <<mem, derived>>
    /\ UNCHANGED <<hvVms, hvVmBadDestroy, hvVcpu, hvMaps, vmHandles, pc,
                   dropId, hostMem>>
    /\ UNCHANGED <<vcpuVars, exitVars>>
    /\ UNCHANGED staticVars
    /\ UNCHANGED mapping

Owns(t, m) == pc[t] = "idle" /\ mem[m].state = "live" /\ mem[m].owner = t

\* Memory::map: `if self.guest_addr.is_some() { return Err(Busy) }`
MapIgnoresMapped(guest_addr) == FALSE

MapChecksMapped(guest_addr) == guest_addr # None

\* `hv_unsafe_call!(hv_vm_map(..))?`: the assignment of guest_addr after it
\* is reached only when the call succeeded.
MapRecordsAlways(status) == TRUE

MapRecords(status) == status = "Ok"

\* Memory::map
Memory_map(t, m, guest_addr, perms) ==
    /\ Owns(t, m)
    /\ IF MapChecksMapped(mem[m].guest_addr)
          THEN /\ ret' = <<"map", "Busy">>
               /\ UNCHANGED <<hvMaps, hvLast, mem>>
          ELSE LET status == hv_vm_map(guest_addr, mem[m].size) IN
               /\ hvLast' = HvCall("hv_vm_map", guest_addr, mem[m].size,
                                   perms_as_u64(perms))
               /\ ret' = <<"map", status>>
               /\ hvMaps' = IF status = "Ok"
                               THEN {mp \in hvMaps : mp.ipa # guest_addr}
                                    \cup {[ipa |-> guest_addr,
                                           size |-> mem[m].size,
                                           flags |-> perms_as_u64(perms)]}
                               ELSE hvMaps
               /\ mem' = IF MapRecords(status)
                            THEN [mem EXCEPT ![m].guest_addr = guest_addr]
                            ELSE mem
    /\ UNCHANGED <<hvVms, hvVmBadDestroy, hvVcpu, guard, vmHandles, pc,
                   derived, dropId, hostMem>>
    /\ UNCHANGED <<vcpuVars, exitVars>>
    /\ UNCHANGED staticVars
    /\ UNCHANGED mapping

\* `self.guest_addr.take()`: what the field holds afterwards.
take_keeps(guest_addr) == guest_addr

take(guest_addr) == None

UnmapBodyUnconditional(m, status) ==
    /\ status = IF mem[m].guest_addr = None THEN "Error"
                ELSE hv_vm_unmap(mem[m].guest_addr, mem[m].size)
    /\ hvLast' = HvCall("hv_vm_unmap", mem[m].guest_addr, mem[m].size, 0)
    /\ hvMaps' = IF status = "Ok"
                    THEN {mp \in hvMaps : mp.ipa # mem[m].guest_addr}
                    ELSE hvMaps

\* The body of Memory::unmap on object m: take() the guest address, then
\* hv_vm_unmap.  Yields the result; the primed variables are set here.
UnmapBody(m, status) ==
    IF mem[m].guest_addr = None
       THEN /\ status = "Error"
            /\ UNCHANGED <<hvMaps, hvLast>>
       ELSE /\ status = hv_vm_unmap(mem[m].guest_addr, mem[m].size)
            /\ hvLast' = HvCall("hv_vm_unmap", mem[m].guest_addr, mem[m].size,
                                0)
            /\ hvMaps' = IF status = "Ok"
                            THEN {mp \in hvMaps : mp.ipa # mem[m].guest_addr}
                            ELSE hvMaps

Statuses == {"Ok", "Error", "BadArgument", "Busy", "NoResources"}

\* Memory::unmap
Memory_unmap(t, m) ==
    /\ Owns(t, m)
    /\ \E status \in Statuses :
          /\ UnmapBody(m, status)
          /\ ret' = <<"unmap", status>>
    /\ mem' = [mem EXCEPT ![m].guest_addr = take(@)]
    /\ UNCHANGED <<hvVms, hvVmBadDestroy, hvVcpu, guard, vmHandles, pc,
                   derived, dropId, hostMem>>
    /\ UNCHANGED <<vcpuVars, exitVars>>
    /\ UNCHANGED staticVars
    /\ UNCHANGED mapping

\* Memory::protect
Memory_protect(t, m, perms) ==
    /\ Owns(t, m)
    /\ IF mem[m].guest_addr = None
          THEN /\ ret' = <<"protect", "Error">>
               /\ UNCHANGED <<hvMaps, hvLast>>
          ELSE LET ga == mem[m].guest_addr
                   status == hv_vm_protect(ga, mem[m].size) IN
               /\ hvLast' = HvCall("hv_vm_protect", ga, mem[m].size,
                                   perms_as_u64(perms))
               /\ ret' = <<"protect", status>>
               /\ hvMaps' = IF status = "Ok"
                               THEN {mp \in hvMaps : mp.ipa # ga}
                                    \cup {[ipa |-> ga, size |-> mem[m].size,
                                           flags |-> perms_as_u64(perms)]}
                               ELSE hvMaps
    /\ UNCHANGED <<hvVms, hvVmBadDestroy, hvVcpu, guard, vmHandles, pc,
                   derived, dropId, mem, hostMem>>
    /\ UNCHANGED <<vcpuVars, exitVars>>
    /\ UNCHANGED staticVars
    /\ UNCHANGED mapping

AccessCheckBoundsFirst(mapping_guest_addr, host_size, guest_addr, len) ==
    IF checked_add(guest_addr, U64Of(len)) = None THEN "BadArgument"
    ELSE IF mapping_guest_addr = None THEN "Error"
    ELSE IF U64Lt(guest_addr, mapping_guest_addr) THEN "BadArgument"
    ELSE LET end == checked_add(guest_addr, U64Of(len))
             mend == checked_add(mapping_guest_addr, host_size) IN
         IF mend = None THEN "BadArgument"
         ELSE IF U64Lt(mend, end) THEN "BadArgument"
         ELSE "Ok"

AccessCheckEndExclusive(mapping_guest_addr, host_size, guest_addr, len) ==
    IF mapping_guest_addr = None THEN "Error"
    ELSE IF U64Lt(guest_addr, mapping_guest_addr) THEN "BadArgument"
    ELSE LET end == checked_add(guest_addr, U64Of(len))
             mend == checked_add(mapping_guest_addr, host_size) IN
         IF end = None THEN "BadArgument"
         ELSE IF mend = None THEN "BadArgument"
         ELSE IF ~U64Lt(end, mend) THEN "BadArgument"
         ELSE "Ok"

\* The checks shared by Memory::read and Memory::write, in source order:
\* mapped, start not below the mapping, end (checked) not beyond its end
\* (checked).
AccessCheck(mapping_guest_addr, host_size, guest_addr, len) ==
    IF mapping_guest_addr = None THEN "Error"
    ELSE IF U64Lt(guest_addr, mapping_guest_addr) THEN "BadArgument"
    ELSE LET end == checked_add(guest_addr, U64Of(len))
             mend == checked_add(mapping_guest_addr, host_size) IN
         IF end = None THEN "BadArgument"
         ELSE IF mend = None THEN "BadArgument"
         ELSE IF U64Lt(mend, end) THEN "BadArgument"
         ELSE "Ok"

HostByte(m, o) == IF o \in DOMAIN hostMem[m] THEN hostMem[m][o] ELSE 0

\* ptr::copy between the host buffer of m and the caller's slice.
HostCopy(kind, m, offset, len) ==
    HvCall(kind, U64Of(offset), U64Of(len), m)

\* Memory::read into a buffer of `len` bytes
Memory_read(t, m, guest_addr, len) ==
    /\ Owns(t, m)
    /\ LET status == AccessCheck(mem[m].guest_addr, mem[m].size, guest_addr,
                                 len) IN
       IF status = "Ok"
          THEN LET offset == U64ToInt(U64Sub(guest_addr, mem[m].guest_addr)) IN
               /\ ret' = <<"read", "Ok",
                           [i \in 1..len |-> HostByte(m, offset + i - 1)]>>
               /\ hvLast' = HostCopy("copy_from_host", m, offset, len)
          ELSE /\ ret' = <<"read", status>>
               /\ UNCHANGED hvLast
    /\ UNCHANGED <<hvVms, hvVmBadDestroy, hvVcpu, hvMaps, guard, vmHandles, pc,
                   derived, dropId, mem, hostMem>>
    /\ UNCHANGED <<vcpuVars, exitVars>>
    /\ UNCHANGED staticVars
    /\ UNCHANGED mapping

\* Memory::write of the bytes `data`
Memory_write(t, m, guest_addr, data) ==
    /\ Owns(t, m)
    /\ LET status == AccessCheck(mem[m].guest_addr, mem[m].size, guest_addr,
                                 Len(data)) IN
       /\ ret' = <<"write", status>>
       /\ IF status = "Ok"
             THEN LET offset == U64ToInt(U64Sub(guest_addr, mem[m].guest_addr))
                      written == {offset + i - 1 : i \in 1..Len(data)}
                      byte(o) == IF o \in written THEN data[o - offset + 1]
                                 ELSE HostByte(m, o)
                      dom == {o \in DOMAIN hostMem[m] \cup written :
                                 byte(o) # 0} IN
                  /\ hostMem' = [hostMem EXCEPT ![m] = [o \in dom |-> byte(o)]]
                  /\ hvLast' = HostCopy("copy_to_host", m, offset, Len(data))
             ELSE UNCHANGED <<hostMem, hvLast>>
    /\ UNCHANGED <<hvVms, hvVmBadDestroy, hvVcpu, hvMaps, guard, vmHandles, pc,
                   derived, dropId, mem>>
    /\ UNCHANGED <<vcpuVars, exitVars>>
    /\ UNCHANGED staticVars
    /\ UNCHANGED mapping

\* The least-significant byte of a word first, `w` bytes in all: the word is
\* shifted right by 8 bits for each byte produced.
RECURSIVE LeBytes(_, _)
LeBytes(v, w) ==
    IF w = 0 THEN <<>>
    ELSE <<v[4] % 256>>
         \o LeBytes(<<v[1] \div 256,
                      (v[1] % 256) * 256 + v[2] \div 256,
                      (v[2] % 256) * 256 + v[3] \div 256,
                      (v[3] % 256) * 256 + v[4] \div 256>>, w - 1)

to_be_bytes(v, w) ==
    LET le == LeBytes(v, w) IN [i \in 1..w |-> le[w + 1 - i]]

\* uN::to_le_bytes of a value held in a word, N = 8 * w
to_le_bytes(v, w) == LeBytes(v, w)

\* uN::from_le_bytes: the most-significant byte is the last one; the word is
\* shifted left by 8 bits for each byte consumed.
RECURSIVE from_le_bytes(_)
from_le_bytes(bytes) ==
    IF bytes = <<>> THEN <<0, 0, 0, 0>>
    ELSE LET hi == from_le_bytes(Tail(bytes)) IN
         <<(hi[1] % 256) * 256 + hi[2] \div 256,
           (hi[2] % 256) * 256 + hi[3] \div 256,
           (hi[3] % 256) * 256 + hi[4] \div 256,
           (hi[4] % 256) * 256 + Head(bytes)>>

\* read_u8 / read_u16 / read_u32 / read_u64 (w = 1, 2, 4, 8): read into
\* `[0; w]`, `?`, then from_le_bytes.
Memory_read_uN(t, m, guest_addr, w) ==
    /\ Owns(t, m)
    /\ LET status == AccessCheck(mem[m].guest_addr, mem[m].size, guest_addr,
                                 w) IN
       IF status = "Ok"
          THEN LET offset == U64ToInt(U64Sub(guest_addr, mem[m].guest_addr)) IN
               /\ ret' = <<"read_uN", "Ok",
                           from_le_bytes([i \in 1..w |->
                                             HostByte(m, offset + i - 1)])>>
               /\ hvLast' = HostCopy("copy_from_host", m, offset, w)
          ELSE /\ ret' = <<"read_uN", status>>
               /\ UNCHANGED hvLast
    /\ UNCHANGED <<hvVms, hvVmBadDestroy, hvVcpu, hvMaps, guard, vmHandles, pc,
                   derived, dropId, mem, hostMem>>
    /\ UNCHANGED <<vcpuVars, exitVars>>
    /\ UNCHANGED staticVars
    /\ UNCHANGED mapping

\* write_u8 / write_u16 / write_u32 / write_u64: `self.write(guest_addr,
\* &data.to_le_bytes())`
Memory_write_uN(t, m, guest_addr, w, data) ==
    /\ w > 0
    /\ Memory_write(t, m, guest_addr, to_le_bytes(data, w))

\* The operations whose backend call goes through `hv_unsafe_call!(..)?`.
WrappedOps == {"new", "vcpu_with_config", "vcpus_exit", "map", "unmap",
               "protect"}

\* Thread t calls `op` and the backend answers its call with `status`:
\*   new, vcpu_with_config   the `?` returns the error, nothing is built;
\*   vcpus_exit(&[])         no handle to upgrade, the status of the one
\*                           hv_vcpus_exit call is the result, Ok included;
\*   map(guest_addr, None)   the `?` returns before guest_addr is recorded;
\*   unmap                   guest_addr is taken before the call;
\*   protect(None)           nothing to update.
hv_call_returns(t, op, m, guest_addr, status) ==
    /\ pc[t] = "idle"
    /\ CASE op = "new" -> status # 0
         [] op = "vcpu_with_config" -> status # 0 /\ vmHandles[t] > 0
         [] op = "vcpus_exit" -> vmHandles[t] > 0
         [] op = "map" -> status # 0 /\ Owns(t, m) /\ mem[m].guest_addr = None
         [] op \in {"unmap", "protect"} ->
               status # 0 /\ Owns(t, m) /\ mem[m].guest_addr # None
    /\ hvReturn' = status
    /\ ret' = <<"hv_unsafe_call", op, hv_unsafe_call(status)>>
    /\ mem' = IF op = "unmap" THEN [mem EXCEPT ![m].guest_addr = take(@)]
              ELSE mem
    /\ hvLast' = CASE op = "map" ->
                        HvCall("hv_vm_map", guest_addr, mem[m].size, 0)
                   [] op = "unmap" ->
                        HvCall("hv_vm_unmap", mem[m].guest_addr, mem[m].size, 0)
                   [] op = "protect" ->
                        HvCall("hv_vm_protect", mem[m].guest_addr, mem[m].size,
                               0)
                   [] OTHER -> hvLast
    /\ UNCHANGED <<hvVms, hvVmBadDestroy, hvVcpu, hvMaps, guard, vmHandles, pc,
                   derived, dropId, hostMem>>
    /\ UNCHANGED <<vcpuVars, exitVars>>
    /\ UNCHANGED <<VM_INSTANCE, VM_INIT_LOCK, initCall, initCreated>>
    /\ UNCHANGED mapping

\* Drop for Memory: `let _ = self.unmap()`
Drop_Memory(t, m) ==
    /\ Owns(t, m)
    /\ \E status \in Statuses : UnmapBody(m, status)
    /\ mem' = [mem EXCEPT ![m].guest_addr = take(@), ![m].state = "dropping"]
    /\ dropId' = [dropId EXCEPT ![t] = m]
    /\ pc' = [pc EXCEPT ![t] = "mem_drop_alloc"]
    /\ UNCHANGED <<hvVms, hvVmBadDestroy, hvVcpu, guard, vmHandles, ret,
                   derived, hostMem>>
    /\ UNCHANGED <<vcpuVars, exitVars>>
    /\ UNCHANGED staticVars
    /\ UNCHANGED mapping

\* ... then the fields in declaration order: host_alloc (Drop for MemAlloc,
\* hv_vm_deallocate) ...
Drop_MemAlloc(t) ==
    /\ pc[t] = "mem_drop_alloc"
    /\ hvLast' = HvCall("hv_vm_deallocate", None, mem[dropId[t]].size, 0)
    /\ hostMem' = [hostMem EXCEPT ![dropId[t]] = EmptyBuf]
    /\ mem' = [mem EXCEPT ![dropId[t]].state = "freed"]
    /\ pc' = [pc EXCEPT ![t] = "mem_drop_vm"]
    /\ UNCHANGED <<hvVms, hvVmBadDestroy, hvVcpu, hvMaps, guard, vmHandles,
                   ret, derived, dropId>>
    /\ UNCHANGED <<vcpuVars, exitVars>>
    /\ UNCHANGED staticVars
    /\ UNCHANGED mapping

\* ... and _guard_vm, a plain Arc<()>.
Drop_Memory_guard_vm(t) ==
    /\ pc[t] = "mem_drop_vm"
    /\ guard' = guard - 1
    /\ mem' = [mem EXCEPT ![dropId[t]] = NoMem]
    /\ dropId' = [dropId EXCEPT ![t] = 0]
    /\ pc' = [pc EXCEPT ![t] = "idle"]
    /\ UNCHANGED <<hvVars, vmHandles, ret, derived, hostMem>>
    /\ UNCHANGED <<vcpuVars, exitVars>>
    /\ UNCHANGED staticVars
    /\ UNCHANGED mapping

\* ---------------------------------------------------------------------------
\* Mapping and the Mappable primitives (lib.rs)
\* ---------------------------------------------------------------------------

\* impl Into<hv_memory_flags_t> for MemPerms
into_hv_memory_flags_t(perms) ==
    CASE perms = "None" -> 0
      [] perms = "Read" -> HV_MEMORY_READ
      [] perms = "Write" -> HV_MEMORY_WRITE
      [] perms = "Exec" -> HV_MEMORY_EXEC
      [] perms = "ReadWrite" -> BitOr(HV_MEMORY_READ, HV_MEMORY_WRITE)
      [] perms = "ReadExec" -> BitOr(HV_MEMORY_READ, HV_MEMORY_EXEC)
      [] perms = "WriteExec" -> BitOr(HV_MEMORY_WRITE, HV_MEMORY_EXEC)
      [] perms = "ReadWriteExec" ->
            BitOr(BitOr(HV_MEMORY_READ, HV_MEMORY_WRITE), HV_MEMORY_EXEC)

\* MemAlloc::new: Layout::from_size_align(size, PAGE_SIZE)?.pad_to_align();
\* the padded size must not exceed isize::MAX.  None for a LayoutError.
Layout_size(size) ==
    LET padded == RoundUp(size) IN
    IF padded = None THEN None
    ELSE IF padded[1] >= 2^15 THEN None
    ELSE padded

FreshMapping == CHOOSE k \in MemIds :
                   /\ mapping[k].state = "none"
                   /\ \A j \in MemIds : mapping[j].state = "none" => k <= j

\* Mapping::new
Mapping_new(t, size) ==
    /\ pc[t] = "idle"
    /\ \E k \in MemIds : mapping[k].state = "none"
    /\ IF Layout_size(size) = None
          THEN /\ ret' = <<"Mapping::new", "LayoutError">>
               /\ UNCHANGED mapping
          ELSE /\ ret' = <<"Mapping::new", "Ok">>
               /\ mapping' = [mapping EXCEPT ![FreshMapping] =
                                [NoMapping EXCEPT
                                   !.state = "live", !.owner = t,
                                   !.size = size,
                                   !.host_size = Layout_size(size)]]
    /\ UNCHANGED <<hvVars, guard, vmHandles, pc, derived, dropId, mem, hostMem>>
    /\ UNCHANGED <<vcpuVars, exitVars>>
    /\ UNCHANGED staticVars

OwnsMapping(t, k) ==
    pc[t] = "idle" /\ mapping[k].state = "live" /\ mapping[k].owner = t

\* `hv_unsafe_call!(..)?` in map_inner, unmap_inner and protect_inner: the
\* updates of the inner mapping after it are reached only when the call
\* succeeded.
InnerUpdatedAlways(status) == TRUE

InnerUpdated(status) == status = "Ok"

\* Mappable::map_inner.  `refused`: the backend answers
\* HV_ERROR for a reason of its own.
map_inner(k, guest_addr, perms, refused) ==
    IF mapping[k].guest_addr # None
       THEN /\ ret' = <<"map", "Busy">>
            /\ UNCHANGED <<hvMaps, hvLast, mapping>>
       ELSE LET status == IF refused THEN "Error"
                          ELSE hv_vm_map(guest_addr, mapping[k].host_size)
                flags == into_hv_memory_flags_t(perms) IN
            /\ hvLast' = HvCall("hv_vm_map", guest_addr,
                                mapping[k].host_size, flags)
            /\ ret' = <<"map", status>>
            /\ hvMaps' = IF status = "Ok"
                            THEN {mp \in hvMaps : mp.ipa # guest_addr}
                                 \cup {[ipa |-> guest_addr,
                                        size |-> mapping[k].host_size,
                                        flags |-> flags]}
                            ELSE hvMaps
            /\ mapping' = IF InnerUpdated(status)
                             THEN [mapping EXCEPT
                                     ![k].guest_addr = guest_addr,
                                     ![k].perms = perms]
                             ELSE mapping

\* Mapping::map
Mapping_map(t, k, guest_addr, perms, refused) ==
    /\ OwnsMapping(t, k)
    /\ map_inner(k, guest_addr, perms, refused)
    /\ UNCHANGED <<hvVms, hvVmBadDestroy, hvVcpu, guard, vmHandles, pc,
                   derived, dropId, mem, hostMem>>
    /\ UNCHANGED <<vcpuVars, exitVars>>
    /\ UNCHANGED staticVars

\* The body of unmap_inner on mapping k with result `status`: the address is
\* read with ok_or, and cleared after the backend call succeeded.
UnmapInner(k, status, refused) ==
    IF mapping[k].guest_addr = None
       THEN /\ status = "Error"
            /\ UNCHANGED <<hvMaps, hvLast>>
       ELSE /\ status = IF refused THEN "Error"
                        ELSE hv_vm_unmap(mapping[k].guest_addr,
                                         mapping[k].host_size)
            /\ hvLast' = HvCall("hv_vm_unmap", mapping[k].guest_addr,
                                mapping[k].host_size, 0)
            /\ hvMaps' = IF status = "Ok"
                            THEN {mp \in hvMaps :
                                     mp.ipa # mapping[k].guest_addr}
                            ELSE hvMaps

\* Mappable::unmap_inner
unmap_inner(k, refused) ==
    \E status \in Statuses :
       /\ UnmapInner(k, status, refused)
       /\ ret' = <<"unmap", status>>
       /\ mapping' = IF InnerUpdated(status)
                        THEN [mapping EXCEPT ![k].guest_addr = None]
                        ELSE mapping

\* Mapping::unmap
Mapping_unmap(t, k, refused) ==
    /\ OwnsMapping(t, k)
    /\ unmap_inner(k, refused)
    /\ UNCHANGED <<hvVms, hvVmBadDestroy, hvVcpu, guard, vmHandles, pc,
                   derived, dropId, mem, hostMem>>
    /\ UNCHANGED <<vcpuVars, exitVars>>
    /\ UNCHANGED staticVars

\* Mappable::protect_inner
protect_inner(k, perms, refused) ==
    IF mapping[k].guest_addr = None
       THEN /\ ret' = <<"protect", "Error">>
            /\ UNCHANGED <<hvMaps, hvLast, mapping>>
       ELSE LET ga == mapping[k].guest_addr
                status == IF refused THEN "Error"
                          ELSE hv_vm_protect(ga, mapping[k].host_size)
                flags == into_hv_memory_flags_t(perms) IN
            /\ hvLast' = HvCall("hv_vm_protect", ga, mapping[k].host_size,
                                flags)
            /\ ret' = <<"protect", status>>
            /\ hvMaps' = IF status = "Ok"
                            THEN {mp \in hvMaps : mp.ipa # ga}
                                 \cup {[ipa |-> ga,
                                        size |-> mapping[k].host_size,
                                        flags |-> flags]}
                            ELSE hvMaps
            /\ mapping' = IF InnerUpdated(status)
                             THEN [mapping EXCEPT ![k].perms = perms]
                             ELSE mapping

\* Mapping::protect
Mapping_protect(t, k, perms, refused) ==
    /\ OwnsMapping(t, k)
    /\ protect_inner(k, perms, refused)
    /\ UNCHANGED <<hvVms, hvVmBadDestroy, hvVcpu, guard, vmHandles, pc,
                   derived, dropId, mem, hostMem>>
    /\ UNCHANGED <<vcpuVars, exitVars>>
    /\ UNCHANGED staticVars
\* The range check of read_inner and write_inner.  `a || b` evaluates b only
\* when a is false, and `.unwrap()` of a checked_add that overflowed panics.
inner_check(inner_guest_addr, host_size, guest_addr, len) ==
    IF inner_guest_addr = None THEN "Error"
    ELSE IF U64Lt(guest_addr, inner_guest_addr) THEN "BadArgument"
    ELSE LET end == checked_add(guest_addr, U64Of(len))
             mend == checked_add(inner_guest_addr, host_size) IN
         IF end = None THEN "panic"
         ELSE IF mend = None THEN "panic"
         ELSE IF U64Lt(mend, end) THEN "BadArgument"
         ELSE "Ok"

InnerByte(k, o) ==
    IF o \in DOMAIN mapping[k].buf THEN mapping[k].buf[o] ELSE 0

\* Mappable::read_inner into a buffer of `len` bytes
read_inner(k, guest_addr, len) ==
    LET status == inner_check(mapping[k].guest_addr, mapping[k].host_size,
                              guest_addr, len) IN
    /\ IF status = "Ok"
          THEN LET offset ==
                      U64ToInt(U64Sub(guest_addr, mapping[k].guest_addr)) IN
               /\ ret' = <<"read", "Ok",
                           [i \in 1..len |-> InnerByte(k, offset + i - 1)]>>
               /\ hvLast' = HostCopy("copy_from_host", k, offset, len)
          ELSE /\ ret' = <<"read", status>>
               /\ UNCHANGED hvLast
    /\ UNCHANGED <<hvMaps, mapping>>

\* Mappable::write_inner of the bytes `data`
write_inner(k, guest_addr, data) ==
    LET status == inner_check(mapping[k].guest_addr, mapping[k].host_size,
                              guest_addr, Len(data)) IN
    /\ ret' = <<"write", status>>
    /\ IF status = "Ok"
          THEN LET offset ==
                      U64ToInt(U64Sub(guest_addr, mapping[k].guest_addr))
                   written == {offset + i - 1 : i \in 1..Len(data)}
                   byte(o) == IF o \in written THEN data[o - offset + 1]
                              ELSE InnerByte(k, o)
                   dom == {o \in DOMAIN mapping[k].buf \cup written :
                              byte(o) # 0} IN
               /\ mapping' = [mapping EXCEPT
                                ![k].buf = [o \in dom |-> byte(o)]]
               /\ hvLast' = HostCopy("copy_to_host", k, offset, Len(data))
          ELSE UNCHANGED <<mapping, hvLast>>
    /\ UNCHANGED hvMaps

\* The thread of a call that panicked unwinds and runs nothing further.
Unwind(t, outcome) ==
    IF outcome = "panic" THEN [pc EXCEPT ![t] = "panicked"] ELSE pc

\* Mapping::read
Mapping_read(t, k, guest_addr, len) ==
    /\ OwnsMapping(t, k)
    /\ read_inner(k, guest_addr, len)
    /\ pc' = Unwind(t, ret'[2])
    /\ UNCHANGED <<hvVms, hvVmBadDestroy, hvVcpu, guard, vmHandles,
                   derived, dropId, mem, hostMem>>
    /\ UNCHANGED <<vcpuVars, exitVars>>
    /\ UNCHANGED staticVars

\* Mapping::write
Mapping_write(t, k, guest_addr, data) ==
    /\ OwnsMapping(t, k)
    /\ write_inner(k, guest_addr, data)
    /\ pc' = Unwind(t, ret'[2])
    /\ UNCHANGED <<hvVms, hvVmBadDestroy, hvVcpu, guard, vmHandles,
                   derived, dropId, mem, hostMem>>
    /\ UNCHANGED <<vcpuVars, exitVars>>
    /\ UNCHANGED staticVars


\* Drop for Mapping: `let _ = self.unmap()`, then the host allocation is
\* returned to the allocator.
Drop_Mapping(t, k, refused) ==
    /\ OwnsMapping(t, k)
    /\ \E status \in Statuses : UnmapInner(k, status, refused)
    /\ mapping' = [mapping EXCEPT ![k] = NoMapping]
    /\ UNCHANGED <<hvVms, hvVmBadDestroy, hvVcpu, guard, vmHandles, pc, ret,
                   derived, dropId, mem, hostMem>>
    /\ UNCHANGED <<vcpuVars, exitVars>>
    /\ UNCHANGED staticVars

\* ---------------------------------------------------------------------------
\* MappingShared (lib.rs): Arc<RwLock<MappingInner>>
\* ---------------------------------------------------------------------------

\* Operations that take `self.inner.write()` and `self.inner.read()`.
WriteOps == {"map", "unmap", "protect", "write", "drop"}
ReadOps == {"read", "get_host_addr", "get_guest_addr", "get_size", "hash"}

\* Arc::strong_count of the inner of mapping k.
StrongCount(k) ==
    LET S[n \in 0..NThreads] ==
           IF n = 0 THEN 0 ELSE S[n - 1] + mapping[k].owners[n]
    IN S[NThreads]

SharedFrame ==
    /\ UNCHANGED <<hvVms, hvVmBadDestroy, hvVcpu, guard, vmHandles, derived,
                   dropId, mem, hostMem>>
    /\ UNCHANGED <<vcpuVars, exitVars>>
    /\ UNCHANGED staticVars

\* MappingShared::new
MappingShared_new(t, size) ==
    /\ pc[t] = "idle"
    /\ \E k \in MemIds : mapping[k].state = "none"
    /\ IF Layout_size(size) = None
          THEN /\ ret' = <<"MappingShared::new", "LayoutError">>
               /\ UNCHANGED mapping
          ELSE /\ ret' = <<"MappingShared::new", "Ok">>
               /\ mapping' = [mapping EXCEPT ![FreshMapping] =
                                [NoMapping EXCEPT
                                   !.state = "shared", !.size = size,
                                   !.host_size = Layout_size(size),
                                   !.owners[t] = 1]]
    /\ UNCHANGED <<hvMaps, hvLast, pc>>
    /\ SharedFrame

\* #[derive(Clone)] on MappingShared, the clone being moved to thread t
\* (unsafe impl Send for MappingShared).
MappingShared_clone(s, t, k) ==
    /\ pc[s] = "idle"
    /\ mapping[k].state = "shared"
    /\ mapping[k].owners[s] > 0
    /\ StrongCount(k) < MaxClones
    /\ mapping' = [mapping EXCEPT ![k].owners[t] = @ + 1]
    /\ UNCHANGED <<hvMaps, hvLast, pc, ret>>
    /\ SharedFrame

\* A thread that holds a clone enters one of its methods, or drops it.
MappingShared_call(t, k, op) ==
    /\ pc[t] = "idle"
    /\ mapping[k].state = "shared"
    /\ mapping[k].owners[t] > 0
    /\ mapping' = [mapping EXCEPT ![k].call[t] = op]
    /\ pc' = [pc EXCEPT ![t] = "lock"]
    /\ UNCHANGED <<hvMaps, hvLast, ret>>
    /\ SharedFrame

\* RwLock::write returns when no guard is held.
write_availableAmongReaders(k) == mapping[k].writers = {}

write_available(k) == mapping[k].writers = {} /\ mapping[k].readers = {}

\* RwLock::read returns when no write guard is held.
read_available(k) == mapping[k].writers = {}

\* `self.inner.write().unwrap()`: a poisoned lock makes write() return Err,
\* the guard inside the error is released and unwrap panics.
inner_write(t, k) ==
    /\ pc[t] = "lock"
    /\ mapping[k].call[t] \in WriteOps
    /\ write_available(k)
    /\ IF mapping[k].poisoned
          THEN /\ pc' = [pc EXCEPT ![t] = "panicked"]
               /\ mapping' = [mapping EXCEPT ![k].call[t] = "none"]
          ELSE /\ pc' = [pc EXCEPT ![t] = "critical"]
               /\ mapping' = [mapping EXCEPT ![k].writers = @ \cup {t}]
    /\ UNCHANGED <<hvMaps, hvLast, ret>>
    /\ SharedFrame

\* `self.inner.read().unwrap()`
inner_read(t, k) ==
    /\ pc[t] = "lock"
    /\ mapping[k].call[t] \in ReadOps
    /\ read_available(k)
    /\ IF mapping[k].poisoned
          THEN /\ pc' = [pc EXCEPT ![t] = "panicked"]
               /\ mapping' = [mapping EXCEPT ![k].call[t] = "none"]
          ELSE /\ pc' = [pc EXCEPT ![t] = "critical"]
               /\ mapping' = [mapping EXCEPT ![k].readers = @ \cup {t}]
    /\ UNCHANGED <<hvMaps, hvLast, ret>>
    /\ SharedFrame

\* The thread is inside the critical section of operation op on mapping k.
InCritical(t, k, op) == pc[t] = "critical" /\ mapping[k].call[t] = op

\* The position after the inner function: its return, or the unwinding of
\* its panic.
AfterInner(t, outcome) ==
    [pc EXCEPT ![t] = IF outcome = "panic" THEN "unwinding" ELSE "unlock"]

\* MappingShared::map inside the lock
MappingShared_map(t, k, guest_addr, perms, refused) ==
    /\ InCritical(t, k, "map")
    /\ map_inner(k, guest_addr, perms, refused)
    /\ pc' = AfterInner(t, ret'[2])
    /\ SharedFrame

\* MappingShared::unmap inside the lock
MappingShared_unmap(t, k, refused) ==
    /\ InCritical(t, k, "unmap")
    /\ unmap_inner(k, refused)
    /\ pc' = AfterInner(t, ret'[2])
    /\ SharedFrame

\* MappingShared::protect inside the lock
MappingShared_protect(t, k, perms, refused) ==
    /\ InCritical(t, k, "protect")
    /\ protect_inner(k, perms, refused)
    /\ pc' = AfterInner(t, ret'[2])
    /\ SharedFrame

\* MappingShared::read inside the lock
MappingShared_read(t, k, guest_addr, len) ==
    /\ InCritical(t, k, "read")
    /\ read_inner(k, guest_addr, len)
    /\ pc' = AfterInner(t, ret'[2])
    /\ SharedFrame

\* MappingShared::write inside the lock
MappingShared_write(t, k, guest_addr, data) ==
    /\ InCritical(t, k, "write")
    /\ write_inner(k, guest_addr, data)
    /\ pc' = AfterInner(t, ret'[2])
    /\ SharedFrame

\* get_host_addr, get_guest_addr, get_size and Hash::hash inside the lock:
\* they read the inner mapping.
MappingShared_get(t, k) ==
    /\ pc[t] = "critical"
    /\ mapping[k].call[t] \in ReadOps \ {"read"}
    /\ ret' = <<mapping[k].call[t],
                CASE mapping[k].call[t] = "get_guest_addr" ->
                        mapping[k].guest_addr
                  [] mapping[k].call[t] = "get_size" -> mapping[k].size
                  [] mapping[k].call[t] = "get_host_addr" -> k
                  [] mapping[k].call[t] = "hash" ->
                        <<k, mapping[k].host_size, mapping[k].guest_addr,
                          mapping[k].size, mapping[k].perms>> >>
    /\ pc' = [pc EXCEPT ![t] = "unlock"]
    /\ UNCHANGED <<hvMaps, hvLast, mapping>>
    /\ SharedFrame

\* Drop for MappingShared, inside the lock: `let _ = self.unmap()`, run by
\* every clone that is dropped.
Drop_MappingShared(t, k, refused) ==
    /\ InCritical(t, k, "drop")
    /\ \E status \in Statuses :
          /\ UnmapInner(k, status, refused)
          /\ mapping' = IF InnerUpdated(status)
                           THEN [mapping EXCEPT ![k].guest_addr = None]
                           ELSE mapping
    /\ pc' = [pc EXCEPT ![t] = "unlock"]
    /\ UNCHANGED ret
    /\ SharedFrame

\* The guard goes out of scope at the end of the method.  After
\* Drop::drop the `inner` field is dropped next.
guard_kept(k, t) == mapping[k]

guard_drop(k, t) ==
    [mapping[k] EXCEPT !.writers = @ \ {t}, !.readers = @ \ {t}]

MappingShared_unlock(t, k) ==
    /\ pc[t] = "unlock"
    /\ mapping[k].call[t] # "none"
    /\ IF mapping[k].call[t] = "drop"
          THEN /\ pc' = [pc EXCEPT ![t] = "drop_inner"]
               /\ mapping' = [mapping EXCEPT ![k] = guard_drop(k, t)]
          ELSE /\ pc' = [pc EXCEPT ![t] = "idle"]
               /\ mapping' = [mapping EXCEPT
                                ![k] = [guard_drop(k, t) EXCEPT
                                          !.call[t] = "none"]]
    /\ UNCHANGED <<hvMaps, hvLast, ret>>
    /\ SharedFrame

\* The guard is dropped while the thread unwinds from a panic: a write guard
\* poisons the lock, a read guard does not.
MappingShared_unwind(t, k) ==
    /\ pc[t] = "unwinding"
    /\ mapping[k].call[t] # "none"
    /\ pc' = [pc EXCEPT ![t] = "panicked"]
    /\ mapping' = [mapping EXCEPT
                     ![k] = [guard_drop(k, t) EXCEPT
                               !.call[t] = "none",
                               !.poisoned = @ \/ t \in mapping[k].writers]]
    /\ UNCHANGED <<hvMaps, hvLast, ret>>
    /\ SharedFrame

\* Drop of the `inner: Arc<..>` field: the strong count goes down by one and
\* the last owner drops the MappingInner, whose MemAlloc is deallocated.
Drop_MappingShared_inner(t, k) ==
    /\ pc[t] = "drop_inner"
    /\ mapping[k].call[t] = "drop"
    /\ pc' = [pc EXCEPT ![t] = "idle"]
    /\ mapping' = [mapping EXCEPT
                     ![k] = IF StrongCount(k) = 1 THEN NoMapping
                            ELSE [mapping[k] EXCEPT !.call[t] = "none",
                                                    !.owners[t] = @ - 1]]
    /\ UNCHANGED <<hvMaps, hvLast, ret>>
    /\ SharedFrame

\* ---------------------------------------------------------------------------
\* Inputs
\* ---------------------------------------------------------------------------
MaxLen == 2

U64Max == <<Limb - 1, Limb - 1, Limb - 1, Limb - 1>>
TopPage == <<Limb - 1, Limb - 1, Limb - 1, Limb - PAGE_SIZE>>

LifeSizes == {U64Of(PAGE_SIZE)}
LifeAddrs == {U64Of(PAGE_SIZE)}

AllocSizes == {U64Of(1), U64Of(PAGE_SIZE), <<Limb - 1, Limb - 1, Limb - 1, 64188>>}
MapAddrs == {U64Of(PAGE_SIZE), U64Of(PAGE_SIZE + 1), TopPage}
AccessAddrs == {U64Of(PAGE_SIZE - 1), U64Of(PAGE_SIZE), U64Of(2 * PAGE_SIZE - 1),
                U64Of(2 * PAGE_SIZE), U64Max}
Bytes == {0, 7}
PermInputs == {"None", "Exec", "ReadWriteExec"}
DataSet == SeqsUpTo(Bytes, MaxLen)

\* ---------------------------------------------------------------------------
\* Specifications
\* ---------------------------------------------------------------------------

VmActions ==
    \/ \E t \in Threads : VirtualMachine_new(t)
    \/ \E s, t \in Threads : Clone(s, t)
    \/ \E t \in Threads : Drop_VirtualMachineInstance(t)
    \/ \E t \in Threads : Drop_VirtualMachineInstance_destroy(t)

VcpuLifeActions ==
    \/ \E t \in Threads : vcpu_with_config(t, "Ok")
    \/ \E t \in Threads, v \in VcpuIds : Drop_Vcpu(t, v)
    \/ \E t \in Threads : Drop_Vcpu_guard_vm(t)
    \/ \E t \in Threads : Drop_Vcpu_guard_self(t)

MemDropActions ==
    \/ \E t \in Threads, m \in MemIds : Drop_Memory(t, m)
    \/ \E t \in Threads : Drop_MemAlloc(t)
    \/ \E t \in Threads : Drop_Memory_guard_vm(t)

\* Lifetime of the backend VM against its reference holders.
Next ==
    \/ VmActions
    \/ \E s, t \in Threads : SendHandle(s, t)
    \/ VcpuLifeActions
    \/ \E t \in Threads : vcpu_with_config(t, "NoResources")
    \/ \E t \in Threads, sz \in LifeSizes : memory_create(t, sz)
    \/ \E t \in Threads, m \in MemIds, a \in LifeAddrs :
          Memory_map(t, m, a, "ReadWriteExec")
    \/ MemDropActions

Spec == Init /\ [][Next]_vars

\* vCPU handles and the cross-thread forced exit.
NextVcpu ==
    \/ \E t \in Threads : VirtualMachine_new(t)
    \/ \E s, t \in Threads : Clone(s, t)
    \/ VcpuLifeActions
    \/ \E t \in Threads, v \in VcpuIds : get_handle(t, v)
    \/ \E t \in Threads, v \in VcpuIds : is_valid(t, v)
    \/ \E t \in Threads, vcpus \in HandleSlices : vcpus_exit(t, vcpus)
    \/ \E t \in Threads : vcpus_exit_loop(t)
    \/ \E t \in Threads : vcpus_exit_call(t)
    \/ \E t \in Threads : vcpus_exit_release(t)
    \/ \E t \in Threads : vcpus_exit_return(t)

SpecVcpu == Init /\ [][NextVcpu]_vars

\* Operations on Memory objects.  A Memory is neither Send nor Sync: every
\* operation on it comes from the thread that created it.
MemThread == {1}

NextMem ==
    \/ \E t \in MemThread : VirtualMachine_new(t)
    \/ \E t \in MemThread : Drop_VirtualMachineInstance(t)
    \/ \E t \in MemThread : Drop_VirtualMachineInstance_destroy(t)
    \/ \E t \in MemThread, sz \in AllocSizes : memory_create(t, sz)
    \/ \E t \in MemThread, m \in MemIds, a \in MapAddrs, p \in PermInputs :
          Memory_map(t, m, a, p)
    \/ \E t \in MemThread, m \in MemIds : Memory_unmap(t, m)
    \/ \E t \in MemThread, m \in MemIds, p \in PermInputs :
          Memory_protect(t, m, p)
    \/ \E t \in MemThread, m \in MemIds, a \in AccessAddrs, n \in 0..MaxLen :
          Memory_read(t, m, a, n)
    \/ \E t \in MemThread, m \in MemIds, a \in AccessAddrs, d \in DataSet :
          Memory_write(t, m, a, d)
    \/ \E t \in MemThread, m \in MemIds : Drop_Memory(t, m)
    \/ \E t \in MemThread : Drop_MemAlloc(t)
    \/ \E t \in MemThread : Drop_Memory_guard_vm(t)

SpecMem == Init /\ [][NextMem]_vars

\* Bounds of read and write against one mapping at a time.
AccessMapAddrs == {U64Of(PAGE_SIZE), U64Of(2 * PAGE_SIZE)}

NextAccess ==
    \/ \E t \in MemThread : VirtualMachine_new(t)
    \/ \E t \in MemThread, sz \in LifeSizes : memory_create(t, sz)
    \/ \E t \in MemThread, m \in MemIds, a \in AccessMapAddrs :
          Memory_map(t, m, a, "ReadWrite")
    \/ \E t \in MemThread, m \in MemIds : Memory_unmap(t, m)
    \/ \E t \in MemThread, m \in MemIds, a \in AccessAddrs, n \in 0..MaxLen :
          Memory_read(t, m, a, n)
    \/ \E t \in MemThread, m \in MemIds, a \in AccessAddrs, d \in DataSet :
          Memory_write(t, m, a, d)

SpecAccess == Init /\ [][NextAccess]_vars

\* The fixed-width helpers on one page mapped at PAGE_SIZE.
Widths == {1, 2, 4, 8}
Patterns == {<<61922, 54212, 46502, 38792>>}

\* The values of width w: the patterns cut to their low w bytes.
Values(w) ==
    {IF w = 1 THEN <<0, 0, 0, p[4] % 256>>
     ELSE IF w = 2 THEN <<0, 0, 0, p[4]>>
     ELSE IF w = 4 THEN <<0, 0, p[3], p[4]>>
     ELSE p : p \in Patterns}

WordOffsets == {1, 5}
WordAddrs == {U64Of(PAGE_SIZE + o) : o \in WordOffsets}

NextWord ==
    \/ \E t \in MemThread : VirtualMachine_new(t)
    \/ \E t \in MemThread, sz \in LifeSizes : memory_create(t, sz)
    \/ \E t \in MemThread, m \in MemIds, a \in LifeAddrs :
          Memory_map(t, m, a, "ReadWrite")
    \/ \E t \in MemThread, m \in MemIds, a \in WordAddrs, w \in Widths :
          Memory_read_uN(t, m, a, w)
    \/ \E t \in MemThread, m \in MemIds, a \in WordAddrs, w \in Widths :
          \E v \in Values(w) : Memory_write_uN(t, m, a, w, v)

SpecWord == Init /\ [][NextWord]_vars

\* Allocation sizes around the page, limb and word boundaries.
RoundSizes == {U64Of(0), U64Of(1), U64Of(PAGE_SIZE - 1), U64Of(PAGE_SIZE),
               U64Of(PAGE_SIZE + 1), U64Of(Limb - 1), TopPage,
               <<Limb - 1, Limb - 1, Limb - 1, Limb - PAGE_SIZE + 1>>,
               <<Limb - 1, Limb - 1, Limb - 1, 64188>>, U64Max}

NextAlloc ==
    \/ \E t \in MemThread : VirtualMachine_new(t)
    \/ \E t \in MemThread : Drop_VirtualMachineInstance(t)
    \/ \E t \in MemThread : Drop_VirtualMachineInstance_destroy(t)
    \/ \E t \in MemThread, sz \in RoundSizes : memory_create(t, sz)
    \/ \E t \in MemThread, m \in MemIds, a \in LifeAddrs :
          Memory_map(t, m, a, "ReadWrite")
    \/ \E t \in MemThread, m \in MemIds : Drop_Memory(t, m)
    \/ \E t \in MemThread : Drop_MemAlloc(t)
    \/ \E t \in MemThread : Drop_Memory_guard_vm(t)

SpecAlloc == Init /\ [][NextAlloc]_vars

\* The init functions with the arguments each takes.
InitCalls ==
    {[fn |-> "init", vm_config |-> "none", gic_config |-> "none"]}
    \cup {[fn |-> "init_with_config", vm_config |-> c, gic_config |-> "none"] :
             c \in {"default", "rejected"}}
    \cup {[fn |-> "init_with_gic", vm_config |-> c, gic_config |-> g] :
             c \in {"default", "rejected"}, g \in {"default", "rejected"}}

\* Those whose configurations the backend accepts.
AcceptedInitCalls ==
    {c \in InitCalls : c.vm_config # "rejected" /\ c.gic_config # "rejected"}

InitSteps ==
    \/ \E t \in Threads : init_lock(t)
    \/ \E t \in Threads : init_check(t)
    \/ \E t \in Threads : init_create(t)
    \/ \E t \in Threads : init_gic(t)
    \/ \E t \in Threads : init_set(t)

\* Threads racing to initialise the global accessor while no VM exists.
NextInit ==
    \/ \E t \in Threads, c \in AcceptedInitCalls :
          init_begin(t, c.fn, c.vm_config, c.gic_config)
    \/ InitSteps
    \/ \E t \in Threads : get(t)
    \/ \E t \in Threads : get_gic(t)
    \/ \E t \in Threads : Drop_VirtualMachineInstance(t)

SpecInit == Init /\ [][NextInit]_vars

\* The global accessor next to directly created handles and configurations
\* the backend refuses.
NextStatic ==
    \/ \E t \in Threads, c \in InitCalls :
          init_begin(t, c.fn, c.vm_config, c.gic_config)
    \/ InitSteps
    \/ \E t \in Threads : init_gic_destroy(t)
    \/ \E t \in Threads : get(t)
    \/ \E t \in Threads : get_gic(t)
    \/ \E t \in Threads : VirtualMachine_new(t)
    \/ \E t \in Threads : Drop_VirtualMachineInstance(t)
    \/ \E t \in Threads : Drop_VirtualMachineInstance_destroy(t)

SpecStatic == Init /\ [][NextStatic]_vars

\* Handle teardown when the backend may refuse to destroy the VM.
NextTeardown ==
    \/ Next
    \/ \E t \in Threads :
          Drop_VirtualMachineInstance_destroy_failed(t, "Error")

SpecTeardown == Init /\ [][NextTeardown]_vars

\* Backend statuses: every hv_error_t value and codes outside the enum.
StatusCodes ==
    {as_hv_return_t(hv_error_t[k]) : k \in DOMAIN hv_error_t}
    \cup {1, -1, -85377024, -85377015, 16385}

\* Wrapped calls answered with every status.
NextStatus ==
    \/ \E t \in MemThread : VirtualMachine_new(t)
    \/ \E t \in MemThread, sz \in LifeSizes : memory_create(t, sz)
    \/ \E t \in MemThread, m \in MemIds, a \in LifeAddrs :
          Memory_map(t, m, a, "ReadWrite")
    \/ \E t \in MemThread, m \in MemIds : Memory_unmap(t, m)
    \/ \E t \in MemThread, op \in WrappedOps, m \in MemIds, a \in LifeAddrs,
          status \in StatusCodes : hv_call_returns(t, op, m, a, status)

SpecStatus == Init /\ [][NextStatus]_vars

\* GIC configurations: GicConfig::new() as is, refused by hv_gic_create, and
\* one with a redistributor base.
GicConfigs == {"rejected", "default"}

\* Directly created VMs, with and without a GIC.
NextGic ==
    \/ \E t \in Threads, g \in GicConfigs : with_gic(t, "default", g)
    \/ \E t \in Threads : with_gic_create(t)
    \/ \E t \in Threads : with_gic_destroy(t)
    \/ VmActions
    \/ \E s, t \in Threads : SendHandle(s, t)
    \/ VcpuLifeActions

SpecGic == Init /\ [][NextGic]_vars

\* Register values written by set_reg.
RegValues == {0, 7}

\* vCPUs driven by their threads while any thread forces exits through
\* handles.
NextDrive ==
    \/ \E t \in Threads : VirtualMachine_new(t)
    \/ \E s, t \in Threads : SendHandle(s, t)
    \/ VcpuLifeActions
    \/ \E t \in Threads, v \in VcpuIds : Vcpu_run(t, v)
    \/ \E t \in Threads, v \in VcpuIds : Vcpu_get_reg(t, v)
    \/ \E t \in Threads, v \in VcpuIds, value \in RegValues :
          Vcpu_set_reg(t, v, value)
    \/ \E t \in Threads, v \in VcpuIds : get_handle(t, v)
    \/ \E t \in Threads, vcpus \in HandleSlices : vcpus_exit(t, vcpus)
    \/ \E t \in Threads : vcpus_exit_loop(t)
    \/ \E t \in Threads : vcpus_exit_call(t)
    \/ \E t \in Threads : vcpus_exit_release(t)
    \/ \E t \in Threads : vcpus_exit_return(t)

SpecDrive == Init /\ [][NextDrive]_vars

\* Handles queried from any thread while the owners are dropped; no forced
\* exit takes part.
NextValid ==
    \/ \E t \in Threads : VirtualMachine_new(t)
    \/ VcpuLifeActions
    \/ \E t \in Threads, v \in VcpuIds : get_handle(t, v)
    \/ \E t \in Threads, v \in VcpuIds : is_valid(t, v)

SpecValid == Init /\ [][NextValid]_vars

\* Every MemPerms value.
AllPerms == {MemPerms[i] : i \in 1..Len(MemPerms)}

\* One object mapped and protected with every permission value.
NextPerms ==
    \/ \E t \in MemThread : VirtualMachine_new(t)
    \/ \E t \in MemThread, sz \in LifeSizes : memory_create(t, sz)
    \/ \E t \in MemThread, m \in MemIds, a \in LifeAddrs, p \in AllPerms :
          Memory_map(t, m, a, p)
    \/ \E t \in MemThread, m \in MemIds : Memory_unmap(t, m)
    \/ \E t \in MemThread, m \in MemIds, p \in AllPerms :
          Memory_protect(t, m, p)
    \/ \E t \in MemThread, m \in MemIds : Drop_Memory(t, m)
    \/ \E t \in MemThread : Drop_MemAlloc(t)
    \/ \E t \in MemThread : Drop_Memory_guard_vm(t)

SpecPerms == Init /\ [][NextPerms]_vars

\* Requested sizes that are not page multiples, guest addresses that the
\* backend accepts (two pages apart), one that is not page-aligned and one
\* whose range would wrap.
RangeSizes == {U64Of(1), U64Of(PAGE_SIZE + 1)}
GoodAddrs == {U64Of(PAGE_SIZE), U64Of(3 * PAGE_SIZE)}
RangeAddrs == GoodAddrs \cup {U64Of(PAGE_SIZE + 1), TopPage}
RangePerms == {"Read", "ReadWrite"}

\* The status of a backend call that fails for a reason of its own.
HV_ERROR == as_hv_return_t(hv_error_t.HV_ERROR)

\* One object mapped, protected and unmapped at several addresses, with a
\* backend that may refuse any of the three calls.
NextRange ==
    \/ \E t \in MemThread : VirtualMachine_new(t)
    \/ \E t \in MemThread, sz \in RangeSizes : memory_create(t, sz)
    \/ \E t \in MemThread, m \in MemIds, a \in RangeAddrs, p \in RangePerms :
          Memory_map(t, m, a, p)
    \/ \E t \in MemThread, m \in MemIds : Memory_unmap(t, m)
    \/ \E t \in MemThread, m \in MemIds, p \in RangePerms :
          Memory_protect(t, m, p)
    \/ \E t \in MemThread, op \in {"map", "unmap", "protect"}, m \in MemIds,
          a \in GoodAddrs : hv_call_returns(t, op, m, a, HV_ERROR)
    \/ \E t \in MemThread, m \in MemIds : Drop_Memory(t, m)
    \/ \E t \in MemThread : Drop_MemAlloc(t)
    \/ \E t \in MemThread : Drop_Memory_guard_vm(t)

SpecRange == Init /\ [][NextRange]_vars

MappingSizes == {U64Of(PAGE_SIZE + 1)}

\* A page-aligned guest address and one that is not.
MappingAddrs == {U64Of(PAGE_SIZE), U64Of(PAGE_SIZE + 1)}

\* One Mapping mapped, protected and unmapped, with a backend that may refuse
\* any of the three calls.
NextMapping ==
    \/ \E t \in MemThread : VirtualMachine_new(t)
    \/ \E t \in MemThread, sz \in MappingSizes : Mapping_new(t, sz)
    \/ \E t \in MemThread, k \in MemIds, a \in MappingAddrs, p \in RangePerms,
          refused \in BOOLEAN : Mapping_map(t, k, a, p, refused)
    \/ \E t \in MemThread, k \in MemIds, refused \in BOOLEAN :
          Mapping_unmap(t, k, refused)
    \/ \E t \in MemThread, k \in MemIds, p \in RangePerms \cup {"Exec"},
          refused \in BOOLEAN : Mapping_protect(t, k, p, refused)
    \/ \E t \in MemThread, k \in MemIds, refused \in BOOLEAN :
          Drop_Mapping(t, k, refused)

SpecMapping == Init /\ [][NextMapping]_vars

\* Reads and writes of a Mapping at addresses below, inside and above its
\* range, the largest address included.
InnerAddrs == {U64Of(PAGE_SIZE - 1), U64Of(PAGE_SIZE),
               U64Of(2 * PAGE_SIZE - 1), U64Max}

NextInner ==
    \/ \E t \in MemThread : VirtualMachine_new(t)
    \/ \E t \in MemThread, sz \in LifeSizes : Mapping_new(t, sz)
    \/ \E t \in MemThread, k \in MemIds, a \in AccessMapAddrs :
          Mapping_map(t, k, a, "ReadWrite", FALSE)
    \/ \E t \in MemThread, k \in MemIds : Mapping_unmap(t, k, FALSE)
    \/ \E t \in MemThread, k \in MemIds, a \in InnerAddrs, n \in 0..MaxLen :
          Mapping_read(t, k, a, n)
    \/ \E t \in MemThread, k \in MemIds, a \in InnerAddrs, d \in DataSet :
          Mapping_write(t, k, a, d)

SpecInner == Init /\ [][NextInner]_vars

\* Threads that share one MappingShared through clones.
SharedAddrs == {U64Of(PAGE_SIZE), U64Max}

\* The operations the threads call: every writer, and three of the readers
\* (the accessors differ only in the field they return).
SharedOps == WriteOps \cup {"read", "get_guest_addr", "hash"}

SharedSteps(t, k) ==
    \/ MappingShared_map(t, k, U64Of(PAGE_SIZE), "ReadWrite", FALSE)
    \/ MappingShared_unmap(t, k, FALSE)
    \/ MappingShared_protect(t, k, "Read", FALSE)
    \/ MappingShared_read(t, k, U64Of(PAGE_SIZE), 1)
    \/ \E a \in SharedAddrs : MappingShared_write(t, k, a, <<7>>)
    \/ MappingShared_get(t, k)
    \/ Drop_MappingShared(t, k, FALSE)
    \/ MappingShared_unlock(t, k)
    \/ MappingShared_unwind(t, k)
    \/ Drop_MappingShared_inner(t, k)

NextShared ==
    \/ \E t \in MemThread : VirtualMachine_new(t)
    \/ \E t \in MemThread, sz \in LifeSizes : MappingShared_new(t, sz)
    \/ \E s, t \in Threads, k \in MemIds : MappingShared_clone(s, t, k)
    \/ \E t \in Threads, k \in MemIds, op \in SharedOps :
          MappingShared_call(t, k, op)
    \/ \E t \in Threads, k \in MemIds : inner_write(t, k)
    \/ \E t \in Threads, k \in MemIds : inner_read(t, k)
    \/ \E t \in Threads, k \in MemIds : SharedSteps(t, k)

SpecShared == Init /\ [][NextShared]_vars

\* Fair scheduling: a thread inside an operation takes its next step, and a
\* thread that waits for the lock gets it if it is available again and again.
SpecSharedFair ==
    /\ SpecShared
    /\ \A t \in Threads, k \in MemIds :
          /\ SF_vars(inner_write(t, k))
          /\ SF_vars(inner_read(t, k))
          /\ WF_vars(SharedSteps(t, k))

\* VMs created with a GIC, their handles converted to GicDisabled ones.
NextDowngrade ==
    \/ \E t \in Threads : with_gic(t, "default", "default")
    \/ \E t \in Threads : with_gic_create(t)
    \/ \E t \in Threads : from_GicEnabled(t)
    \/ \E t \in Threads : from_GicEnabled_drop(t)
    \/ \E s, t \in Threads : Clone(s, t)
    \/ \E s, t \in Threads : SendHandle(s, t)
    \/ \E t \in Threads : Drop_VirtualMachineInstance(t)
    \/ \E t \in Threads : Drop_VirtualMachineInstance_destroy(t)
    \/ VcpuLifeActions

SpecDowngrade == Init /\ [][NextDowngrade]_vars

\* The initialised global accessor: handles obtained from it and dropped,
\* vCPUs and memory created from them and dropped.
NextGlobal ==
    \/ \E t \in Threads, c \in AcceptedInitCalls :
          init_begin(t, c.fn, c.vm_config, c.gic_config)
    \/ InitSteps
    \/ \E t \in Threads : get(t)
    \/ \E t \in Threads : get_gic(t)
    \/ \E t \in Threads : Drop_VirtualMachineInstance(t)
    \/ VcpuLifeActions
    \/ \E t \in MemThread, sz \in LifeSizes : memory_create(t, sz)
    \/ MemDropActions

SpecGlobal == Init /\ [][NextGlobal]_vars

\* Sizes of memory_create: accepted, not roundable (BadArgument) and refused
\* by the backend (NoResources).
CreateSizes == AllocSizes \cup {<<0, 1, 0, 0>>}

\* Handles cloned and dropped while vCPU and memory creations succeed and
\* fail.
NextCreate ==
    \/ VmActions
    \/ \E t \in Threads, status \in {"Ok", "NoResources"} :
          vcpu_with_config(t, status)
    \/ \E t \in Threads, v \in VcpuIds : Drop_Vcpu(t, v)
    \/ \E t \in Threads : Drop_Vcpu_guard_vm(t)
    \/ \E t \in Threads : Drop_Vcpu_guard_self(t)
    \/ \E t \in MemThread, sz \in CreateSizes : memory_create(t, sz)
    \/ MemDropActions

SpecCreate == Init /\ [][NextCreate]_vars

\* Flag words given to MemPerms::from: every combination of the three flags
\* and words with other bits set.
FlagWords == 0..9

\* The MemPerms conversions and `|` on every value.
NextBitOr ==
    \/ \E a, b \in AllPerms : MemPerms_bitor(a, b)
    \/ \E c \in AllPerms : MemPerms_bitor_again(c)
    \/ \E p \in AllPerms : MemPerms_into_u64(p)
    \/ \E v \in FlagWords : MemPerms_from_u64(v)

SpecBitOr == Init /\ [][NextBitOr]_vars

\* ---------------------------------------------------------------------------
\* Properties
\* ---------------------------------------------------------------------------

AllIdle == \A t \in Threads : pc[t] = "idle"

Destroying == {t \in Threads : pc[t] = "vm_destroy"}

\* C1 - Singleton uniqueness: at most one backend VM is live at any time, and
\* a VirtualMachine::new() issued while a backend VM is live returns
\* Err(Busy) and hands out no handle (no handle count and no reference count
\* changes).
C1_SingletonUniqueness ==
    /\ [](hvVms <= 1)
    /\ [][\A t \in Threads :
             (VirtualMachine_new(t) /\ hvVms > 0)
                => /\ ret' = <<"new", "Busy">>
                   /\ vmHandles' = vmHandles
                   /\ guard' = guard
                   /\ hvVms' = hvVms]_vars

\* A new() was refused while the VM was held by two handles.
C1_Witness ==
    /\ ret = <<"new", "Busy">>
    /\ hvVms = 1
    /\ guard = 2 /\ TotalHandles = 2

\* C2 - Reference counting of VM handles: as long as only handles were made
\* from the VM (no vCPU, no memory), the VM is live, and new() is refused
\* with Busy, while a handle exists; once the last handle is dropped and its
\* drop has run the destroy call, the VM is gone and new() succeeds.
C2_HandlesKeepVmLive ==
    ~derived =>
        /\ TotalHandles > 0 => (hvVms = 1 /\ hv_vm_create = "Busy")
        /\ (TotalHandles = 0 /\ Destroying = {})
              => (hvVms = 0 /\ hv_vm_create = "Ok")

\* A handle was cloned and every handle has been dropped since: the VM is
\* gone.
C2_Witness ==
    /\ ~derived
    /\ ret = <<"clone", "Ok">>
    /\ AllIdle /\ TotalHandles = 0
    /\ hvVms = 0

\* The holders of the VM's reference token.
Holders ==
    TotalHandles + Cardinality({v \in VcpuIds : vcpuObj[v] = "live"})
                 + Cardinality({m \in MemIds : mem[m].state = "live"})

\* C3 - When no operation is in progress, a backend VM is live if and only
\* if a holder of the VM's token exists (a handle, a Vcpu or a Memory).
C3_LiveIffHolder == AllIdle => (hvVms = 1 <=> Holders > 0)

\* C4 - The backend VM destroy call is only issued when no Vcpu and no Memory
\* made from the VM is left, every backend vCPU has been destroyed and every
\* guest mapping removed.
C4_DestroyAfterDerived ==
    Destroying # {} =>
        /\ \A v \in VcpuIds : vcpuObj[v] # "live" /\ hvVcpu[v] # "live"
        /\ \A m \in MemIds : mem[m].state = "none"
        /\ hvMaps = {}

\* The VM is about to be destroyed after a vCPU of it was created and dropped.
C4_Witness ==
    /\ Destroying # {}
    /\ derived
    /\ \E v \in VcpuIds : vcpuObj[v] = "dropped"

\* C5 - The destroy call is issued at most once per created VM: at most one
\* drop observes itself as the last reference, it does so only when no other
\* handle exists, the VM it destroys is still live, and the backend never
\* receives a destroy call without a live VM.
C5_DestroyAtMostOnce ==
    /\ ~hvVmBadDestroy
    /\ Cardinality(Destroying) <= 1
    /\ Destroying # {} => (TotalHandles = 0 /\ guard = 0 /\ hvVms = 1)

\* A handle was cloned, all handles were dropped and one of the drops is
\* about to destroy the VM.
C5_Witness ==
    /\ Destroying # {}
    /\ ret = <<"clone", "Ok">>
    /\ ~derived

\* C6 - is_valid() returns true whenever the owning Vcpu has not been dropped
\* and false whenever the drop of the owning Vcpu has completed.
C6_ValidIffOwnerAlive ==
    [][\A t \in Threads, v \in VcpuIds :
          is_valid(t, v) =>
             /\ vcpuObj[v] = "live" => ret'[3] = TRUE
             /\ vcpuObj[v] = "dropped" => ret'[3] = FALSE]_vars

\* C7 - vcpus_exit makes one backend call, whose list is, in input order, the
\* ids of the handles whose owner was still alive at the upgrade.
C7_ExitListIsAliveHandles ==
    \A t \in Threads :
        pc[t] = "exit_release" => hvExitLog[t] = <<exitAlive[t]>>

\* C8 - Every id passed to the backend force-exit call names a backend vCPU
\* whose destroy call has not been issued when the force-exit call is made.
C8_ExitIdsNotDestroyed ==
    [][\A t \in Threads :
          vcpus_exit_call(t) =>
             \A i \in 1..Len(exitIds[t]) : hvVcpu[exitIds[t][i]] = "live"]_vars

\* C9 - Memory::map on a mapped object returns Err(Busy), issues no backend
\* call and leaves the recorded guest address unchanged, whatever the address
\* and the permissions.
C9_MapMappedIsBusy ==
    [][\A t \in Threads, m \in MemIds, a \in MapAddrs, p \in PermInputs :
          (Memory_map(t, m, a, p) /\ mem[m].guest_addr # None)
             => /\ ret' = <<"map", "Busy">>
                /\ hvLast' = hvLast
                /\ hvMaps' = hvMaps
                /\ mem'[m].guest_addr = mem[m].guest_addr]_vars

\* A map was refused on an object mapped by the backend.
C9_Witness ==
    /\ ret = <<"map", "Busy">>
    /\ \E m \in MemIds : /\ mem[m].guest_addr # None
                         /\ hvLast.fn = "hv_vm_map"
                         /\ hvLast.ipa = mem[m].guest_addr

\* The effects an operation refused on an unmapped object must not have.
NoEffect(op) ==
    /\ ret' = <<op, "Error">>
    /\ hvLast' = hvLast
    /\ hvMaps' = hvMaps
    /\ hostMem' = hostMem

\* C10 - On a Memory that is not mapped, unmap, protect, read and write return
\* Err(Error) without a backend call and without a copy on the host buffer;
\* read and write do so for every address and length, also those the bounds
\* check would reject.
C10_UnmappedIsError ==
    [][\A t \in Threads, m \in MemIds :
          mem[m].guest_addr = None =>
             /\ Memory_unmap(t, m) => NoEffect("unmap")
             /\ \A p \in PermInputs :
                   Memory_protect(t, m, p) => NoEffect("protect")
             /\ \A a \in AccessAddrs, n \in 0..MaxLen :
                   Memory_read(t, m, a, n) => NoEffect("read")
             /\ \A a \in AccessAddrs, d \in DataSet :
                   Memory_write(t, m, a, d) => NoEffect("write")]_vars

\* A read was refused on an object that had been mapped and then unmapped.
C10_Witness ==
    /\ ret = <<"read", "Error">>
    /\ hvLast.fn = "hv_vm_unmap"
    /\ \E m \in MemIds : mem[m].state = "live" /\ mem[m].guest_addr = None

\* x <= y on words.
U64Le(x, y) == ~U64Lt(y, x)

\* [g, g + n) lies inside [A, A + S) and neither g + n nor A + S exceeds the
\* largest word: A <= g, n <= S, g - A <= S - n, g <= max - n, A <= max - S.
InRange(A, S, g, n) ==
    /\ U64Le(A, g)
    /\ U64Le(U64Of(n), S)
    /\ U64Le(U64Sub(g, A), U64Sub(S, U64Of(n)))
    /\ U64Le(g, U64Sub(U64Max, U64Of(n)))
    /\ U64Le(A, U64Sub(U64Max, S))

\* The outcome C11 requires of an access of n bytes at g on mapped object m.
BoundsOutcome(op, m, g, n) ==
    IF InRange(mem[m].guest_addr, mem[m].size, g, n)
       THEN /\ ret'[1] = op /\ ret'[2] = "Ok"
            /\ hvLast' # hvLast
       ELSE /\ ret' = <<op, "BadArgument">>
            /\ hvLast' = hvLast
            /\ hostMem' = hostMem

\* C11 - On a Memory of size S mapped at A, read and write of n bytes at g
\* succeed exactly when A <= g and g + n <= A + S without overflow; otherwise
\* they return Err(BadArgument) and no byte of the host buffer is copied.
C11_BoundsEnforced ==
    [][\A t \in Threads, m \in MemIds :
          mem[m].guest_addr # None =>
             /\ \A a \in AccessAddrs, n \in 0..MaxLen :
                   Memory_read(t, m, a, n) => BoundsOutcome("read", m, a, n)
             /\ \A a \in AccessAddrs, d \in DataSet :
                   Memory_write(t, m, a, d)
                      => BoundsOutcome("write", m, a, Len(d))]_vars

\* A write was refused on a mapped object whose buffer holds bytes of an
\* earlier, accepted write.
C11_Witness ==
    /\ ret = <<"write", "BadArgument">>
    /\ hvLast.fn = "copy_to_host"
    /\ \E m \in MemIds : /\ mem[m].guest_addr # None
                         /\ DOMAIN hostMem[m] # {}

\* Offsets at which C12 reads the buffer back.
ReadOffsets == {0, 1, PAGE_SIZE - 1}

\* C12 - A Memory can be mapped again after a successful unmap: the unmap
\* clears the recorded address and removes the backend mapping, a later map at
\* any address the backend accepts succeeds, neither touches the host buffer,
\* and a read at offset o from the current mapping start returns the bytes the
\* buffer holds at offset o.
C12_RemapRoundTrip ==
    [][\A t \in Threads, m \in MemIds :
          /\ (Memory_unmap(t, m) /\ mem[m].guest_addr # None
                                 /\ ret' = <<"unmap", "Ok">>)
                => /\ mem'[m].guest_addr = None
                   /\ ~\E mp \in hvMaps' : mp.ipa = mem[m].guest_addr
                   /\ hostMem' = hostMem
          /\ \A a \in AccessMapAddrs :
                (Memory_map(t, m, a, "ReadWrite") /\ mem[m].guest_addr = None
                    /\ hv_vm_map(a, mem[m].size) = "Ok")
                   => /\ ret' = <<"map", "Ok">>
                      /\ mem'[m].guest_addr = a
                      /\ hostMem' = hostMem
          /\ \A o \in ReadOffsets, n \in 0..MaxLen :
                (/\ mem[m].guest_addr # None
                 /\ o + n <= U64ToInt(mem[m].size)
                 /\ Memory_read(t, m, checked_add(mem[m].guest_addr, U64Of(o)),
                                n))
                   => ret' = <<"read", "Ok",
                               [i \in 1..n |-> HostByte(m, o + i - 1)]>>]_vars

\* An object holding written bytes was just mapped again: it had been mapped,
\* written and unmapped before.
C12_Witness ==
    /\ ret = <<"map", "Ok">>
    /\ hvLast.fn = "hv_vm_map"
    /\ \E m \in MemIds : /\ mem[m].guest_addr = U64Of(2 * PAGE_SIZE)
                         /\ DOMAIN hostMem[m] # {}

\* Byte i (0 = least significant) of a word.
ByteOf(v, i) ==
    LET limb == v[4 - (i \div 2)]
    IN IF i % 2 = 0 THEN limb % 256 ELSE limb \div 256

\* The bytes of the host buffer of m at [o, o + w) are those of v, least
\* significant first, and v has no bit above its w bytes.
HoldsLittleEndian(buf, o, w, v) ==
    /\ \A i \in 0..(w - 1) :
          (IF o + i \in DOMAIN buf THEN buf[o + i] ELSE 0) = ByteOf(v, i)
    /\ \A i \in w..7 : ByteOf(v, i) = 0

\* C13 - write_uN(g, v) on a mapped Memory stores the w little-endian bytes of
\* v at offset g - A and changes no other byte; read_uN(g) returns the value
\* whose little-endian bytes are the w bytes stored at offset g - A.  Hence
\* write_uN(g, v) followed by read_uN(g) returns Ok(v).
C13_FixedWidthRoundTrip ==
    /\ [][\A t \in Threads, m \in MemIds, o \in WordOffsets, w \in Widths :
             \A v \in Values(w) :
                (/\ mem[m].guest_addr = U64Of(PAGE_SIZE)
                 /\ Memory_write_uN(t, m, U64Of(PAGE_SIZE + o), w, v))
                   => /\ ret' = <<"write", "Ok">>
                      /\ HoldsLittleEndian(hostMem'[m], o, w, v)
                      /\ \A x \in (DOMAIN hostMem[m] \cup DOMAIN hostMem'[m])
                                     \ (o..(o + w - 1)) :
                            /\ x \in DOMAIN hostMem[m]
                            /\ x \in DOMAIN hostMem'[m]
                            /\ hostMem'[m][x] = hostMem[m][x]]_vars
    /\ [](\A m \in MemIds :
             (/\ Len(ret) = 3 /\ ret[1] = "read_uN"
              /\ hvLast.fn = "copy_from_host" /\ hvLast.flags = m)
                => HoldsLittleEndian(hostMem[m], U64ToInt(hvLast.ipa),
                                     U64ToInt(hvLast.size), ret[3]))

\* read_u64 returned the pattern from a buffer holding its eight bytes.
C13_Witness ==
    /\ ret = <<"read_uN", "Ok", <<61922, 54212, 46502, 38792>>>>
    /\ \E m \in MemIds :
          hostMem[m] = [o \in 1..8 |->
                           <<136, 151, 166, 181, 196, 211, 226, 241>>[o]]

\* r is the smallest multiple of PAGE_SIZE that is >= s.
SmallestMultiple(s, r) ==
    /\ r[4] % PAGE_SIZE = 0
    /\ ~U64Lt(r, s)
    /\ U64Lt(U64Sub(r, s), U64Of(PAGE_SIZE))

C15_MemoryDropOrder ==
    /\ [][\A t \in Threads, m \in MemIds :
             Drop_Memory(t, m) =>
                /\ (hvLast' # hvLast) <=> (mem[m].guest_addr # None)
                /\ mem[m].guest_addr # None =>
                      /\ hvLast'.fn = "hv_vm_unmap"
                      /\ hvLast'.ipa = mem[m].guest_addr
                /\ guard' = guard]_vars
    /\ [][\A t \in Threads :
             /\ Drop_MemAlloc(t) =>
                   /\ mem[dropId[t]].state = "dropping"
                   /\ mem[dropId[t]].guest_addr = None
                   /\ hvLast'.fn = "hv_vm_deallocate"
                   /\ mem'[dropId[t]].state = "freed"
                   /\ guard' = guard
             /\ Drop_Memory_guard_vm(t) =>
                   /\ mem[dropId[t]].state = "freed"
                   /\ guard' = guard - 1
                   /\ hvLast' = hvLast]_vars
    /\ [][(hvLast' # hvLast /\ hvLast'.fn = "hv_vm_deallocate")
             => \E t \in Threads : Drop_MemAlloc(t)]_vars
    /\ [](\A m \in MemIds :
             mem[m].state \in {"dropping", "freed"}
                => mem[m].guest_addr = None)

\* A Memory dropped while mapped: the last call returned was its map, the
\* backend holds no mapping, the buffer is deallocated and the reference on
\* the VM is still held.
C15_Witness ==
    /\ ret = <<"map", "Ok">>
    /\ hvMaps = {}
    /\ hvLast.fn = "hv_vm_deallocate"
    /\ guard > 0
    /\ \E t \in Threads : /\ pc[t] = "mem_drop_vm"
                          /\ mem[dropId[t]].state = "freed"

InitFns == {"init", "init_with_config", "init_with_gic"}

\* C16 - Threads racing through init, init_with_config and init_with_gic while
\* no VM exists: one backend create succeeds and no other is attempted after
\* it, the static slot changes only from unset, no thread panics, the lock is
\* never poisoned and every call returns Ok(()).
C16_InitRaceSafe ==
    /\ [][\A t \in Threads :
             (init_create(t) /\ hvVms' # hvVms)
                => ~initCreated /\ hvVms = 0 /\ hvVms' = 1]_vars
    /\ [][VM_INSTANCE' # VM_INSTANCE
             => /\ VM_INSTANCE = "unset"
                /\ \E t \in Threads : init_set(t)]_vars
    /\ [](/\ \A t \in Threads : pc[t] # "panicked"
          /\ VM_INIT_LOCK # -1
          /\ ret[1] \in InitFns => ret[2] = "Ok"
          /\ VM_INSTANCE # "unset" => initCreated /\ hvVms = 1)

\* A thread that called init holds the lock and finds the slot already set by
\* a thread that called init_with_gic.
C16_Witness ==
    /\ VM_INSTANCE = "Gic"
    /\ \E t \in Threads : /\ pc[t] = "init_check"
                          /\ initCall[t].fn = "init"
                          /\ VM_INIT_LOCK = t

\* C17 - get() returns None while the slot is unset and Some after an init of
\* either variant has set it; get_gic() returns Some exactly when the slot was
\* set by init_with_gic; the slot is unset until an init function has created
\* the VM and is set by nothing but the init that created it.
C17_GetReflectsInit ==
    /\ [][\A t \in Threads :
             /\ get(t) => ret' = <<"get", IF VM_INSTANCE = "unset"
                                             THEN "None" ELSE "Some">>
             /\ get_gic(t) => ret' = <<"get_gic", IF VM_INSTANCE = "Gic"
                                                     THEN "Some" ELSE "None">>
             /\ (init_set(t) /\ pc'[t] = "idle")
                   => /\ VM_INSTANCE = "unset"
                      /\ ret' = <<initCall[t].fn, "Ok">>
                      /\ VM_INSTANCE' = IF initCall[t].fn = "init_with_gic"
                                           THEN "Gic" ELSE "NoGic"]_vars
    /\ [][VM_INSTANCE' # VM_INSTANCE => \E t \in Threads : init_set(t)]_vars
    /\ [](~initCreated => VM_INSTANCE = "unset")

\* get_gic() returned None on an instance initialised without a GIC.
C17_Witness ==
    /\ VM_INSTANCE = "NoGic"
    /\ ret = <<"get_gic", "None">>

\* C18 - Once the static slot is set, init, init_with_config and
\* init_with_gic return Ok(()) whatever their configurations, no thread is at
\* or past the backend create call, and the stored variant never changes.
C18_LaterInitIsNoOp ==
    /\ [][\A t \in Threads :
             /\ \A c \in InitCalls :
                   (VM_INSTANCE # "unset"
                       /\ init_begin(t, c.fn, c.vm_config, c.gic_config))
                      => /\ ret' = <<c.fn, "Ok">>
                         /\ pc' = pc
                         /\ hvVms' = hvVms /\ guard' = guard
                         /\ VM_INSTANCE' = VM_INSTANCE
             /\ (VM_INSTANCE # "unset" /\ init_check(t))
                      => /\ ret' = <<initCall[t].fn, "Ok">>
                         /\ pc'[t] = "idle"
                         /\ hvVms' = hvVms /\ guard' = guard
                         /\ VM_INSTANCE' = VM_INSTANCE]_vars
    /\ [][VM_INSTANCE # "unset" => VM_INSTANCE' = VM_INSTANCE]_vars
    /\ [](VM_INSTANCE # "unset"
             => \A t \in Threads :
                   pc[t] \notin {"init_create", "init_gic",
                                 "init_gic_destroy", "init_set"})

\* init_with_gic returned Ok(()) on an instance that stays without a GIC.
C18_Witness ==
    /\ VM_INSTANCE = "NoGic"
    /\ ret = <<"init_with_gic", "Ok">>

\* C19 - When the drop of the last reference to a directly created handle
\* gets a failure status from hv_vm_destroy, the failure is reported: the
\* thread panics or an error is returned.
C19_DestroyFailureReported ==
    [][\A t \in Threads :
          Drop_VirtualMachineInstance_destroy_failed(t, "Error")
             => \/ pc'[t] = "panicked"
                \/ (ret' # ret /\ ret'[2] = "Error")]_vars

\* The error kind of each listed status, by its value as a signed 32-bit
\* integer (0xfae94001 .. 0xfae94008, 0xfae9400f).
KindOfStatus ==
    (-85377023 :> "Error") @@ (-85377022 :> "Busy")
    @@ (-85377021 :> "BadArgument") @@ (-85377020 :> "IllegalState")
    @@ (-85377019 :> "NoResources") @@ (-85377018 :> "NoDevice")
    @@ (-85377017 :> "Denied") @@ (-85377016 :> "Fault")
    @@ (-85377009 :> "Unsupported")

\* C20 - A wrapped backend call returns Ok exactly when the backend status is
\* HV_SUCCESS (0); any other status comes back as Err of the kind listed for
\* that code, or Err(Unknown(code)) for a code that is not listed; the
\* operation ends with that one call, and map, unmap and new return the
\* status of their backend call.
C20_StatusTranslation ==
    /\ [](ret[1] = "hv_unsafe_call" =>
             /\ (ret[3] = <<"Ok">>) <=> (hvReturn = 0)
             /\ hvReturn # 0 =>
                   ret[3] = <<"Err",
                              IF hvReturn \in DOMAIN KindOfStatus
                                 THEN <<KindOfStatus[hvReturn]>>
                                 ELSE <<"Unknown", hvReturn>>>>)
    /\ [][\A t \in Threads, op \in WrappedOps, m \in MemIds, a \in LifeAddrs,
            status \in StatusCodes :
             hv_call_returns(t, op, m, a, status)
                => /\ pc' = pc
                   /\ hvReturn' = status
                   /\ ret'[2] = op
                   /\ hvMaps' = hvMaps /\ hvVms' = hvVms]_vars
    /\ [][\A t \in Threads, m \in MemIds, a \in LifeAddrs :
             /\ (Memory_map(t, m, a, "ReadWrite") /\ mem[m].guest_addr = None)
                   => ret' = <<"map", hv_vm_map(a, mem[m].size)>>
             /\ (Memory_unmap(t, m) /\ mem[m].guest_addr # None)
                   => ret' = <<"unmap", hv_vm_unmap(mem[m].guest_addr,
                                                    mem[m].size)>>
             /\ VirtualMachine_new(t) => ret' = <<"new", hv_vm_create>>]_vars

\* unmap returned Err(Unknown(0xfae94009)): the backend answered with a code
\* outside hv_error_t.
C20_Witness ==
    /\ ret = <<"hv_unsafe_call", "unmap", <<"Err", <<"Unknown", -85377015>>>>>>
    /\ hvReturn = -85377015

\* The step in which thread t returns from a with_gic call that had created
\* the backend VM.
WithGicReturns(t) ==
    /\ pc[t] \in {"with_gic_create", "with_gic_destroy"}
    /\ pc'[t] = "idle"

\* C21 - with_gic is all-or-nothing: when the VM was created and the GIC
\* creation fails, with_gic returns the GIC error with the backend VM
\* destroyed (by a destroy call that found a VM) and no handle handed out,
\* so a VM creation right after it is not refused with Busy; when both
\* succeed, with_gic returns without any destroy call, the VM is live and
\* exactly one handle (one reference) to it exists.
C21_WithGicAllOrNothing ==
    [][\A t \in Threads :
          WithGicReturns(t) =>
             IF hv_gic_create(initCall[t].gic_config) # "Ok"
                THEN /\ ret' = <<"with_gic",
                                 hv_gic_create(initCall[t].gic_config)>>
                     /\ pc[t] = "with_gic_destroy"
                     /\ hvVms = 1 /\ hvVms' = 0
                     /\ ~hvVmBadDestroy'
                     /\ vmHandles' = vmHandles
                     /\ guard' = 0
                     /\ hv_vm_create' # "Busy"
                ELSE /\ ret' = <<"with_gic", "Ok">>
                     /\ pc[t] = "with_gic_create"
                     /\ hvVms = 1 /\ hvVms' = 1
                     /\ ~hvVmBadDestroy'
                     /\ vmHandles' = [vmHandles EXCEPT ![t] = @ + 1]
                     /\ TotalHandles' = 1
                     /\ guard' = 1]_vars

\* with_gic returned the error of hv_gic_create while the other thread holds
\* nothing: the VM it had created is gone.
C21_Witness ==
    /\ ret = <<"with_gic", "BadArgument">>
    /\ hvVms = 0 /\ guard = 0
    /\ ~hvVmBadDestroy
    /\ AllIdle
\* C22 - Thread affinity: the backend never receives a call that drives a
\* vCPU (run, register get or set, destroy) from a thread other than the one
\* whose vcpu_create made it, and that thread is fixed from creation on; an
\* id reaches the backend from another thread only in the id list of the
\* forced exit.
C22_ThreadAffinity ==
    /\ [](\A v \in VcpuIds : ~hvVcpuLog[v].foreign)
    /\ [][\A t \in Threads :
             (vcpu_with_config(t, "Ok") /\ vmHandles[t] > 0)
                => hvVcpuLog'[FreshVcpu].creator = t]_vars
    /\ [][\A v \in VcpuIds :
             /\ hvVcpuLog[v].creator # 0
                   => hvVcpuLog'[v].creator = hvVcpuLog[v].creator
             /\ hvVcpuLog'[v] # hvVcpuLog[v]
                   => \E t \in Threads :
                         /\ pc[t] = "idle"
                         /\ hvVcpuLog'[v].creator = t]_vars

\* Thread 1 ran its vCPU after thread 2 had passed the vCPU's id to the
\* forced exit.
C22_Witness ==
    /\ ret = <<"run", 1, "Ok">>
    /\ hvVcpuLog[1].creator = 1
    /\ hvExitLog[2] = <<(<<1>>)>>
    /\ hvVcpuLog[1].reg = 7

\* C23 - A handle never reports a destroyed vCPU as alive: whenever
\* is_valid() returns true, the backend has not yet received the destroy call
\* of that vCPU.
C23_ValidMeansNotDestroyed ==
    [][\A t \in Threads, v \in VcpuIds :
          (is_valid(t, v) /\ ret'[3] = TRUE)
             => (hvVcpuLog[v].destroys = 0 /\ hvVcpu[v] = "live")]_vars

\* The number of times v occurs in a sequence of ids.
Occurrences(q, v) == Cardinality({i \in 1..Len(q) : q[i] = v})

\* The strong references to the token of v held by vcpus_exit calls.
RECURSIVE UpgradedRefs(_, _)
UpgradedRefs(v, n) ==
    IF n = 0 THEN 0
    ELSE Occurrences(exitGuards[n], v) + UpgradedRefs(v, n - 1)

C25_OneOwnerPerVcpu ==
    /\ [](\A v \in VcpuIds :
             /\ hvVcpuLog[v].destroys <= 1
             /\ ~hvVcpuLog[v].stale
             /\ vcpuObj[v] = "live"
                   => (hvVcpuLog[v].destroys = 0 /\ hvVcpu[v] = "live")
             /\ vcpuObj[v] \in {"dropping", "dropped"}
                   => (hvVcpuLog[v].destroys = 1 /\ hvVcpu[v] = "destroyed")
             /\ vcpuObj[v] = "none"
                   => (hvVcpuLog[v] = NoVcpuLog /\ hvVcpu[v] = "none"))
    /\ [][\A t \in Threads :
             (vcpu_with_config(t, "Ok") /\ vmHandles[t] > 0)
                => /\ hvVcpu[FreshVcpu] = "none"
                   /\ vcpuObj'[FreshVcpu] = "live"
                   /\ \A w \in VcpuIds \ {FreshVcpu} :
                         vcpuObj'[w] = vcpuObj[w]]_vars
    /\ [][\A v \in VcpuIds :
             hvVcpuLog'[v].destroys # hvVcpuLog[v].destroys
                => Drop_Vcpu(vcpuOwner[v], v)]_vars

\* Vcpu 1 was written to, then dropped and destroyed once, while Vcpu 2 is
\* still run.
C25_Witness ==
    /\ vcpuObj[1] = "dropped"
    /\ hvVcpuLog[1].destroys = 1 /\ hvVcpuLog[1].reg = 7
    /\ ret = <<"run", 2, "Ok">>

\* C26 - For each of the eight MemPerms values p, the flags the backend
\* receives from Memory::map and Memory::protect are u64::from(p) (None 0,
\* Read 1, Write 2, Exec 4, ReadWrite 3, ReadExec 5, WriteExec 6,
\* ReadWriteExec 7).
C26_PermsEncoding ==
    [][\A t \in Threads, m \in MemIds, p \in AllPerms :
          /\ \A a \in LifeAddrs :
                (Memory_map(t, m, a, p) /\ mem[m].guest_addr = None)
                   => /\ hvLast'.fn = "hv_vm_map"
                      /\ hvLast'.flags = u64_from_MemPerms(p)
          /\ (Memory_protect(t, m, p) /\ mem[m].guest_addr # None)
                => /\ hvLast'.fn = "hv_vm_protect"
                   /\ hvLast'.flags = u64_from_MemPerms(p)]_vars

\* The backend holds a mapping of exactly [ipa, ipa + size).
BackendMapped(ipa, size) == \E mp \in hvMaps : mp.ipa = ipa /\ mp.size = size

\* The backend received the call fn on exactly the recorded range of m.
CallOnRecordedRange(fn, m) ==
    /\ hvLast' # hvLast
    /\ hvLast'.fn = fn
    /\ hvLast'.ipa = mem[m].guest_addr
    /\ hvLast'.size = mem[m].size
    /\ mem[m].size[4] % PAGE_SIZE = 0

\* C27 - Backend range consistency: the size of an object is the requested
\* size rounded up to the page and never changes; map passes that size (not
\* the requested one) with the given address and records the address only
\* when the backend accepted; every backend unmap or protect call, the unmap
\* of drop included, carries the recorded address and that size, and that
\* range is one the backend holds.
C27_RangeConsistency ==
    /\ [][\A t \in Threads, s \in RangeSizes :
             (memory_create(t, s) /\ vmHandles[t] > 0
                /\ ret' = <<"memory_create", "Ok">>)
                => /\ SmallestMultiple(s, mem'[FreshMem].size)
                   /\ mem'[FreshMem].size # s]_vars
    /\ [][\A m \in MemIds :
             (mem[m].state = "live" /\ mem'[m].state # "none")
                => mem'[m].size = mem[m].size]_vars
    /\ [][\A t \in Threads, m \in MemIds, a \in RangeAddrs, p \in RangePerms :
             (Memory_map(t, m, a, p) /\ mem[m].guest_addr = None)
                => /\ hvLast' # hvLast
                   /\ hvLast'.fn = "hv_vm_map"
                   /\ hvLast'.ipa = a
                   /\ hvLast'.size = mem[m].size
                   /\ IF ret' = <<"map", "Ok">>
                         THEN /\ mem'[m].guest_addr = a
                              /\ BackendMapped(a, mem[m].size)'
                         ELSE mem'[m].guest_addr = None]_vars
    /\ [][\A t \in Threads, m \in MemIds :
             /\ (Memory_unmap(t, m) /\ mem[m].guest_addr # None)
                   => CallOnRecordedRange("hv_vm_unmap", m)
             /\ (Drop_Memory(t, m) /\ mem[m].guest_addr # None)
                   => CallOnRecordedRange("hv_vm_unmap", m)
             /\ \A p \in RangePerms :
                   (Memory_protect(t, m, p) /\ mem[m].guest_addr # None)
                      => CallOnRecordedRange("hv_vm_protect", m)
             /\ \A op \in {"unmap", "protect"}, a \in GoodAddrs :
                   hv_call_returns(t, op, m, a, HV_ERROR)
                      => /\ hvLast'.ipa = mem[m].guest_addr
                         /\ hvLast'.size = mem[m].size]_vars
    /\ [](\A m \in MemIds :
             mem[m].guest_addr # None
                => BackendMapped(mem[m].guest_addr, mem[m].size))

\* An object of PAGE_SIZE + 1 requested bytes, mapped at 3 * PAGE_SIZE, was
\* unmapped: the backend was asked for two pages at that address.
C27_Witness ==
    /\ ret = <<"unmap", "Ok">>
    /\ hvLast.fn = "hv_vm_unmap"
    /\ hvLast.ipa = U64Of(3 * PAGE_SIZE)
    /\ hvLast.size = U64Of(2 * PAGE_SIZE)
    /\ hvMaps = {}

\* The backend accepts a mapping of `size` bytes at `a`: a VM exists, the
\* address is page-aligned, the range does not wrap and meets no mapping.
Acceptable(a, size) ==
    /\ hvVms > 0
    /\ a[4] % PAGE_SIZE = 0
    /\ checked_add(a, size) # None
    /\ \A mp \in hvMaps :
          \/ ~U64Lt(a, checked_add(mp.ipa, mp.size))
          \/ ~U64Lt(mp.ipa, checked_add(a, size))

\* C28 - A failed map changes nothing: when the backend refuses the map call
\* (address not page-aligned, range wrapping or overlapping, or any other
\* error) the object stays unmapped, the backend mappings and the host buffer
\* are as before, and a map of an unmapped object with arguments the backend
\* accepts succeeds and records the address, also right after a failure.
C28_FailedMapChangesNothing ==
    /\ [][\A t \in Threads, m \in MemIds, a \in RangeAddrs, p \in RangePerms :
             (Memory_map(t, m, a, p) /\ mem[m].guest_addr = None
                /\ ret' # <<"map", "Ok">>)
                => /\ ~Acceptable(a, mem[m].size)
                   /\ mem' = mem
                   /\ mem'[m].guest_addr = None
                   /\ hvMaps' = hvMaps
                   /\ hostMem' = hostMem]_vars
    /\ [][\A t \in Threads, m \in MemIds, a \in GoodAddrs :
             hv_call_returns(t, "map", m, a, HV_ERROR)
                => /\ mem' = mem
                   /\ mem'[m].guest_addr = None
                   /\ hvMaps' = hvMaps
                   /\ hostMem' = hostMem]_vars
    /\ [][\A t \in Threads, m \in MemIds, a \in RangeAddrs, p \in RangePerms :
             (Memory_map(t, m, a, p) /\ mem[m].guest_addr = None
                /\ Acceptable(a, mem[m].size))
                => /\ ret' = <<"map", "Ok">>
                   /\ mem'[m].guest_addr = a]_vars

\* The map of a two-page object at an address that is not page-aligned was
\* refused; the object is unmapped and the backend holds no mapping.
C28_Witness ==
    /\ ret = <<"map", "BadArgument">>
    /\ hvLast.fn = "hv_vm_map" /\ hvLast.ipa = U64Of(PAGE_SIZE + 1)
    /\ \E m \in MemIds : /\ mem[m].state = "live"
                         /\ mem[m].size = U64Of(2 * PAGE_SIZE)
                         /\ mem[m].guest_addr = None
    /\ hvMaps = {}

\* C29 - The recorded mapping state agrees with the backend: an object
\* records a guest address exactly when the backend holds the mapping of that
\* object (every recorded range is a backend mapping and every backend
\* mapping is the recorded range of an object), and an unmap that the backend
\* refuses leaves the recorded address in place.
C29_RecordAgreesWithBackend ==
    /\ [](/\ \A m \in MemIds :
                mem[m].guest_addr # None
                   => BackendMapped(mem[m].guest_addr, mem[m].size)
          /\ \A mp \in hvMaps :
                \E m \in MemIds : /\ mem[m].guest_addr = mp.ipa
                                  /\ mem[m].size = mp.size)
    /\ [][\A t \in Threads, m \in MemIds, a \in GoodAddrs :
             hv_call_returns(t, "unmap", m, a, HV_ERROR)
                => mem'[m].guest_addr = mem[m].guest_addr]_vars

Memory_size(m) == mem[m].size

\* C31 - Memory::size() is a multiple of PAGE_SIZE and does not change while
\* the object exists, whatever map, unmap, protect, read or write does and
\* returns; the bytes a read or write copies lie inside the host buffer of
\* that size.
C31_SizeConstant ==
    /\ [](\A m \in MemIds :
             mem[m].state # "none" => Memory_size(m)[4] % PAGE_SIZE = 0)
    /\ [][\A m \in MemIds :
             mem[m].state # "none" /\ mem'[m].state # "none"
                => Memory_size(m)' = Memory_size(m)]_vars
    /\ [][hvLast' # hvLast
             /\ hvLast'.fn \in {"copy_from_host", "copy_to_host"}
                => LET m == hvLast'.flags IN
                   /\ mem[m].guest_addr # None
                   /\ U64Le(checked_add(hvLast'.ipa, hvLast'.size),
                            Memory_size(m))]_vars

\* A one-page object mapped with all permissions has been written to, and a
\* later write outside its range has failed.
C31_Witness ==
    /\ ret = <<"write", "BadArgument">>
    /\ hvLast.fn = "copy_to_host"
    /\ \E m \in MemIds : /\ mem[m].guest_addr # None
                         /\ Memory_size(m) = U64Of(PAGE_SIZE)
                         /\ \E mp \in hvMaps : mp.flags = 7


\* C35 - A read or write of a Mapping whose end address guest_addr + len
\* overflows u64 returns Err(BadArgument), and no read or write panics.
C35_OverflowIsBadArgument ==
    /\ [][\A t \in Threads, k \in MemIds, a \in InnerAddrs :
             mapping[k].guest_addr # None
             /\ ~U64Lt(a, mapping[k].guest_addr) =>
                /\ \A n \in 0..MaxLen :
                      Mapping_read(t, k, a, n)
                      /\ checked_add(a, U64Of(n)) = None
                         => ret' = <<"read", "BadArgument">>
                /\ \A d \in DataSet :
                      Mapping_write(t, k, a, d)
                      /\ checked_add(a, U64Of(Len(d))) = None
                         => ret' = <<"write", "BadArgument">>]_vars
    /\ [](\A t \in Threads : pc[t] # "panicked")


\* Thread t is inside the critical section of an operation on mapping k: it
\* has the guard and has not released it.
Active(t, k) ==
    /\ pc[t] \in {"critical", "unlock", "unwinding"}
    /\ mapping[k].call[t] # "none"

\* C32 - On a MappingShared used by several threads through clones, a map,
\* unmap, protect, write (or drop) critical section is never active together
\* with another critical section on the same mapping; read critical
\* sections may be active together.
C32_SharedExclusion ==
    \A k \in MemIds, s, t \in Threads :
       s # t /\ Active(s, k) /\ Active(t, k)
          => /\ mapping[k].call[s] \in ReadOps
             /\ mapping[k].call[t] \in ReadOps

\* Two threads are inside read critical sections of the same mapped mapping.
C32_Witness ==
    \E k \in MemIds, s, t \in Threads :
       /\ s # t
       /\ pc[s] = "critical" /\ mapping[k].call[s] = "read"
       /\ pc[t] = "critical" /\ mapping[k].call[t] = "read"
       /\ mapping[k].guest_addr # None


\* A thread is between entering an operation of a shared mapping and leaving
\* it.
InCall(t) == pc[t] \in {"lock", "critical", "unlock", "unwinding", "drop_inner"}

C34_MappedWhileOwned ==
    [][\A t \in Threads, k \in MemIds :
          Drop_MappingShared(t, k, FALSE)
          /\ mapping[k].guest_addr # None
          /\ StrongCount(k) > 1
             => /\ hvLast' = hvLast
                /\ mapping'[k].guest_addr = mapping[k].guest_addr]_vars


\* C36 - Converting a GicEnabled handle into a GicDisabled one never calls
\* hv_vm_destroy and leaves the number of references as it was: the clone
\* adds one, the drop of the converted value removes one and is never the
\* last.  The VM is live afterwards, the new handle can create a vCPU, and
\* the backend VM goes away only once no reference is left.
C36_DowngradeKeepsVm ==
    /\ [][\A t \in Threads :
             /\ from_GicEnabled(t) => guard' = guard + 1 /\ hvVms' = hvVms
             /\ from_GicEnabled_drop(t)
                   => /\ guard' = guard - 1 /\ guard' >= 1
                      /\ pc'[t] = "idle"
                      /\ hvVms' = hvVms /\ hvVms' = 1
                      /\ vmHandles'[t] > 0
                      /\ (\E v \in VcpuIds : vcpuObj[v] = "none")
                            => (ENABLED vcpu_with_config(t, "Ok"))']_vars
    /\ [](\A t \in Threads : pc[t] # "from_destroy")
    /\ [][hvVms' < hvVms => guard = 0]_vars

\* A conversion has returned in a thread that holds the only handle of a VM
\* created with a GIC.
C36_Witness ==
    /\ ret = <<"from", "Ok">>
    /\ hvVms = 1 /\ guard = 1
    /\ \E t \in Threads : vmHandles[t] = 1 /\ TotalHandles = 1
    /\ \A t \in Threads : pc[t] = "idle"


\* The positions of an init function between taking the lock and returning.
InitHolding == {"init_check", "init_create", "init_gic", "init_gic_destroy",
                "init_set"}

\* C37 - An init function whose backend creation fails returns the error,
\* leaves the static slot empty (get() returns None) and releases the init
\* lock; the lock is never left held or poisoned by a failure, so a later
\* init that finds no VM in the backend creates one and sets the slot.
C37_FailedInitRetryable ==
    /\ [][\A t \in Threads :
             /\ init_create(t)
                /\ hv_vm_create_config(initCall[t].vm_config) # "Ok"
                   => /\ ret' = <<initCall[t].fn,
                                  hv_vm_create_config(initCall[t].vm_config)>>
                      /\ VM_INSTANCE' = "unset"
                      /\ VM_INIT_LOCK' = 0
                      /\ pc'[t] = "idle"
                      /\ hvVms' = hvVms
             /\ init_gic_destroy(t)
                   => /\ ret' = <<initCall[t].fn, "BadArgument">>
                      /\ VM_INSTANCE' = "unset"
                      /\ VM_INIT_LOCK' = 0
                      /\ pc'[t] = "idle"
             /\ init_create(t)
                /\ hvVms = 0 /\ initCall[t].vm_config # "rejected"
                   => pc'[t] \in {"init_set", "init_gic"}
             /\ init_set(t)
                   => /\ ret' = <<initCall[t].fn, "Ok">>
                      /\ VM_INSTANCE' # "unset"
             /\ get(t) /\ VM_INSTANCE = "unset" => ret' = <<"get", "None">>]_vars
    /\ [](/\ VM_INIT_LOCK # -1
          /\ \A t \in Threads : VM_INIT_LOCK = t <=> pc[t] \in InitHolding)

\* init has failed with Busy while a directly created VM is live: the slot
\* is empty and the lock is free.
C37_Witness ==
    /\ ret = <<"init", "Busy">>
    /\ VM_INSTANCE = "unset" /\ VM_INIT_LOCK = 0
    /\ hvVms = 1 /\ TotalHandles = 1
    /\ \A t \in Threads : pc[t] = "idle"


\* C38 - Once the global accessor is initialised the backend VM stays live:
\* the slot is never emptied, get() returns Some, and dropping handles
\* obtained from get() / get_gic(), or vCPUs and memory created from them,
\* never leads to the hv_vm_destroy call.
C38_GlobalKeepsVmLive ==
    /\ [](VM_INSTANCE # "unset" =>
             /\ hvVms = 1 /\ ~hvVmBadDestroy
             /\ guard >= 1
             /\ \A t \in Threads : pc[t] # "vm_destroy")
    /\ [][VM_INSTANCE # "unset" =>
             /\ VM_INSTANCE' = VM_INSTANCE
             /\ hvVms' = hvVms
             /\ \A t \in Threads : get(t) => ret' = <<"get", "Some">>]_vars

\* The accessor is initialised and every handle, vCPU and memory object
\* obtained through it has been dropped again.
C38_Witness ==
    /\ VM_INSTANCE # "unset"
    /\ derived
    /\ TotalHandles = 0 /\ guard = 1
    /\ \A v \in VcpuIds : vcpuObj[v] # "live"
    /\ \A m \in MemIds : mem[m].state = "none"
    /\ \A t \in Threads : pc[t] = "idle"
    /\ hvLast.fn # "none"
    /\ \E v \in VcpuIds : hvVcpu[v] = "destroyed"


\* C39 - Cloning a VM handle succeeds whenever the handle exists, adds one
\* reference and makes no backend call; a vcpu_create or memory_create that
\* fails (backend error, size that cannot be rounded up) leaves the
\* reference count, the handles and the backend VM as they were.
C39_FailedCreationKeepsCount ==
    /\ [][\A s, t \in Threads :
             Clone(s, t) => /\ ret' = <<"clone", "Ok">>
                            /\ guard' = guard + 1
                            /\ <<hvVms, hvVmBadDestroy, hvVcpu, hvMaps, hvLast>>'
                                  = <<hvVms, hvVmBadDestroy, hvVcpu, hvMaps,
                                      hvLast>>]_vars
    /\ [][\A t \in Threads :
             /\ vcpu_with_config(t, "NoResources")
                   => /\ ret' = <<"vcpu_with_config", "NoResources">>
                      /\ <<guard, vmHandles, hvVms, pc, vcpuObj>>'
                            = <<guard, vmHandles, hvVms, pc, vcpuObj>>
             /\ \A sz \in CreateSizes :
                   memory_create(t, sz) /\ ret'[2] # "Ok"
                      => <<guard, vmHandles, hvVms, pc, mem>>'
                            = <<guard, vmHandles, hvVms, pc, mem>>]_vars
    /\ [](\A s, t \in Threads :
             vmHandles[s] > 0 /\ pc[s] = "idle" /\ pc[t] = "idle"
             /\ TotalHandles < MaxHandles => ENABLED Clone(s, t))

\* memory_create has failed on the only handle of a VM that has no vCPU and
\* no memory: one reference, VM live.
C39_Witness ==
    /\ ret = <<"memory_create", "BadArgument">>
    /\ guard = 1 /\ TotalHandles = 1 /\ hvVms = 1
    /\ \A m \in MemIds : mem[m].state = "none"
    /\ \A v \in VcpuIds : vcpuObj[v] = "none"


\* C40 - `a | b` is the MemPerms whose flag encoding is the bitwise OR of the
\* encodings of a and b; `|` is commutative, associative and idempotent with
\* None as identity; a MemPerms converted to u64 and back is itself.
C40_BitOrIsUnion ==
    /\ ret[1] = "bitor" =>
          LET a == ret[2]  b == ret[3]  r == ret[4] IN
          /\ r \in AllPerms
          /\ u64_from_MemPerms(r)
                = BitOr(u64_from_MemPerms(a), u64_from_MemPerms(b))
          /\ r = bitor(b, a)
          /\ a = b => r = a
          /\ b = "None" => r = a
          /\ a = "None" => r = b
    /\ ret[1] = "bitor_again" =>
          LET a == ret[2]  b == ret[3]  c == ret[4]  r == ret[5] IN
          r = bitor(a, bitor(b, c))
    /\ ret[1] = "into" => MemPerms_from(ret[3]) = ret[2]
    /\ ret[1] = "from" /\ ret[2] < 8 => u64_from_MemPerms(ret[3]) = ret[2]

\* Read | Write has given ReadWrite, and ReadWrite | Exec ReadWriteExec.
C40_Witness ==
    ret = <<"bitor_again", "Read", "Write", "Exec", "ReadWriteExec">>

====
